---- MODULE Spec2Model ----
(***************************************************************************)
(* pinreq: the Matrix request channel (MatrixChannel), its sync stream     *)
(* (MatrixStream) and the command layer (load_config_map, handle_listen,   *)
(* handle_request), as state machines over a homeserver that keeps one     *)
(* room timeline per room and may answer with damaged responses.           *)
(***************************************************************************)
EXTENDS Integers, Sequences, FiniteSets, TLC

VARIABLES
    pc,             \* position of main(): "api" | "main" | "hl_stream" | "exit"
    cmd,            \* the subcommand of this run
    cfg,            \* Config.matrix: the channel entries of the config file
    requested,      \* CHANNEL_IDS: None (-a/--all) or Some(list of names)
    cfg_map,        \* the name -> settings map built by Config::to_map
    channel_names,  \* the selected channel names
    idx,            \* position of the `for ch_name in channels` loop
    result,         \* what main() returned: None while running
    constructed,    \* names of the channels built by to_channel, in order
    channel,        \* the live MatrixChannel (its settings), None before it is built
    stream,         \* the MatrixStream returned by listen(), None before
    log,            \* homeserver: the room's timeline
    net,            \* the rooms some request has been issued for so far
    lastResp,       \* the wire outcome the request future consumed in this step
    lastPoll,       \* what Stream::poll returned in this step
    ret,            \* the operation of this step, its result and its requests
    delivered,      \* the messages the current stream has yielded, in order
    identity,       \* pinreq-pubsub request: the signing key of the GPGME context
    keyring,        \* pinreq-pubsub listen: the public keys the listener knows
    wanted,         \* pinreq-pubsub request: the MessageKind to announce
    reqst,          \* pinreq-pubsub request: "idle" | "published" | "failed"
    topic,          \* the data published on the pubsub topic, None before
    handled,        \* what the listener's for_each closure did with the item
    line,           \* the argument of Message::from_str
    parsed          \* its result, None before the call

\* Signing, the pubsub topic and Message::from_str.
auxVars == <<identity, keyring, wanted, reqst, topic, handled, line, parsed>>

vars == <<pc, cmd, cfg, requested, cfg_map, channel_names, idx, result, constructed,
          channel, stream, log, net, lastResp, lastPoll, ret, delivered, auxVars>>

mainVars ==
    <<cmd, cfg, requested, cfg_map, channel_names, idx, result, constructed, auxVars>>

-----------------------------------------------------------------------------
(* Bounds *)

MaxLog == 2         \* events the room timeline can hold
MaxChannels == 3    \* entries of the config file
MaxRequested == 2   \* names given as CHANNEL_IDS
MaxArg == 3         \* characters after the first space of a command line

-----------------------------------------------------------------------------
(* Option<T> as a sequence of length 0 or 1 *)

None == <<>>
Some(x) == <<x>>
IsSome(o) == o # <<>>
Unwrap(o) == o[1]

SeqsUpTo(S, n) == UNION {[1..k -> S] : k \in 0..n}

-----------------------------------------------------------------------------
(* Messages and their wire form *)

MessageKinds == {"Pin", "Confirm"}

Msg(k, a) == [kind |-> k, arg |-> a]

\* Resource ids are opaque; the model gives the message at timeline position i
\* the resource id i, so that a yielded message identifies its event.
ResourceIds == 1..MaxLog
MessagesAt(i) == {Msg("Pin", i)}

\* The text of an m.text body: a JSON envelope, or something else.
EnvelopeText(m) == [form |-> "envelope", kind |-> m.kind, arg |-> m.arg]
GarbageText == [form |-> "garbage", kind |-> "", arg |-> 0]
UnknownKindText == [form |-> "envelope", kind |-> "Unpin", arg |-> 0]

\* serde_json::to_string(msg)
SerializeMessage(m) == EnvelopeText(m)

\* serde_json::from_slice::<Message>(body)
DecodeMessage(t) ==
    IF t.form = "envelope" /\ t.kind \in MessageKinds
    THEN [ok |-> TRUE, msg |-> Msg(t.kind, t.arg), err |-> ""]
    ELSE [ok |-> FALSE, msg |-> Msg("", 0), err |-> "decode"]

-----------------------------------------------------------------------------
(* Timeline events, as the JSON the sync response carries *)

Event(content, msgtype, body, text) ==
    [content |-> content, msgtype |-> msgtype, body |-> body, text |-> text]

TextEvent(t) == Event("object", "m.text", "string", t)
ImageEvent == Event("object", "m.image", "absent", GarbageText)
NoContentEvent == Event("absent", "absent", "absent", GarbageText)
NoMsgtypeEvent == Event("object", "absent", "string", GarbageText)
NoBodyEvent == Event("object", "m.text", "absent", GarbageText)

GoodEventsAt(i) == {TextEvent(EnvelopeText(m)) : m \in MessagesAt(i)}
MalformedTextEvents == {TextEvent(GarbageText), TextEvent(UnknownKindText), NoBodyEvent}
NonTextEvents == {ImageEvent}
BrokenEvents == {NoContentEvent, NoMsgtypeEvent}

\* The events the homeserver may hold at timeline position i.
EventsAt(i) ==
    GoodEventsAt(i) \cup MalformedTextEvents \cup NonTextEvents \cup BrokenEvents

IsTextEvent(e) == e.content = "object" /\ e.msgtype = "m.text"
IsWellFormed(e) == IsTextEvent(e) /\ e.body = "string" /\ DecodeMessage(e.text).ok
IsMalformedText(e) == IsTextEvent(e) /\ ~IsWellFormed(e)
IsNonText(e) == e.content = "object" /\ e.msgtype \notin {"m.text", "absent", "nonstring"}

-----------------------------------------------------------------------------
(* Channel settings and requests *)

Names == {"a", "b"}
RoomOf(name) == name
Rooms == {RoomOf(n) : n \in Names}
Tokens == {None, Some("tok")}

\* MatrixChannelSettings
Settings(name, token) ==
    [name |-> name, homeserver |-> "hs", room_id |-> RoomOf(name), access_token |-> token]

SettingsSet == {Settings(n, t) : n \in Names, t \in Tokens}

NoText == [form |-> "none", kind |-> "", arg |-> 0]

\* A request as its URI and body tell it; txn_id is the transaction id a
\* send-event URI may end in (.../send/m.room.message/{txnId}), None when the URI
\* has none; limit is the "limit" of the filter's room.timeline, None when the
\* filter has none.
Req(kind, room, token, since, body) ==
    [kind |-> kind, room |-> room, access_token |-> token, full_state |-> FALSE,
     types |-> IF kind = "sync" THEN "m.room.message" ELSE "", since |-> since,
     body |-> body, txn_id |-> None, limit |-> None]

\* The sync request asking for the full state whenever it continues from a cursor.
SyncRequest_FullState(s) ==
    [Req("sync", s.room_id, s.access_token, s.last_sync, NoText)
        EXCEPT !.full_state = IsSome(s.last_sync)]

\* GET /_matrix/client/r0/sync?access_token=..&filter=..&full_state=false[&since=..]
SyncRequest(s) ==
    LET base == Req("sync", s.room_id, s.access_token, None, NoText)
    IN  IF IsSome(s.last_sync) THEN [base EXCEPT !.since = s.last_sync] ELSE base

\* GET /_matrix/client/r0/joined_rooms?access_token=..
JoinedRoomsRequest(c, token) == Req("joined_rooms", c.room_id, token, None, NoText)

\* POST /_matrix/client/r0/rooms/{room_id}/send/m.room.message?access_token=..
SendRequest(c, token, msg) ==
    Req("send", c.room_id, token, None, SerializeMessage(msg))

-----------------------------------------------------------------------------
(* The homeserver's answers to /sync *)

Shapes == {"ok", "no_rooms", "no_join", "no_room", "no_timeline", "no_events",
           "events_not_array"}
MissingRoomShapes == {"no_rooms", "no_join", "no_room"}
NextBatchForms == {"string", "absent", "nonstring"}

\* `events` is the timeline the body lists under the room of the request,
\* `others` what it lists under the other joined rooms.
Wire(netst, json, shape, events, nb) ==
    [net |-> netst, json |-> json, shape |-> shape, events |-> events, next_batch |-> nb,
     others |-> <<>>]

NoResponse == Wire("none", FALSE, "ok", <<>>, None)
NotReady == Wire("pending", FALSE, "ok", <<>>, None)
NetError == Wire("error", FALSE, "ok", <<>>, None)
BadJson == Wire("ok", FALSE, "ok", <<>>, None)

\* The events of the room newer than `since` (all of them on the first sync).
EventsSince(room, since) ==
    IF IsSome(since) THEN SubSeq(log[room], Unwrap(since) + 1, Len(log[room]))
    ELSE log[room]

\* A parsed /sync body: the room's new events and a token for the timeline's end,
\* with the parts the shape and the next_batch form leave out or damage.
SyncResponse(req, shape, nbform) ==
    Wire("ok", TRUE, shape, EventsSince(req.room, req.since),
         IF nbform = "absent" THEN None
         ELSE Some([str |-> nbform = "string", tok |-> Len(log[req.room])]))

\* A message event of another joined room; no event of the request's room
\* carries this message.
ForeignEvent == TextEvent(EnvelopeText(Msg("Confirm", 0)))
WithOthers(r, evs) == [r EXCEPT !.others = evs]

\* What a poll of the request future for `req` can find. The body may list
\* other joined rooms beside, or in place of, the room of the request.
SyncOutcomes(req) ==
    {NotReady, NetError, BadJson}
        \cup {SyncResponse(req, sh, "string") : sh \in Shapes}
        \cup {SyncResponse(req, "ok", nb) : nb \in NextBatchForms}
        \cup {WithOthers(SyncResponse(req, sh, "string"), <<ForeignEvent>>) :
                 sh \in Shapes \ {"no_rooms", "no_join"}}

-----------------------------------------------------------------------------
(* MatrixStream: the response closure *)

EvOk(m) == [ok |-> TRUE, msg |-> m, err |-> ""]
EvErr(e) == [ok |-> FALSE, msg |-> Msg("", 0), err |-> e]

\* The closure of events.iter().map(..): one event to a message or an error.
ParseEvent(e) ==
    IF e.content = "absent" THEN EvErr("Could not get event contents")
    ELSE IF e.content # "object" THEN EvErr("Could not view content as object")
    ELSE IF e.msgtype = "absent" THEN EvErr("Could not check msgtype")
    ELSE IF e.msgtype = "nonstring" THEN EvErr("Could not view msgtype as string")
    ELSE IF e.msgtype = "m.text" THEN
        IF e.body = "absent" THEN EvErr("Could not get message body")
        ELSE IF e.body # "string" THEN EvErr("Could not view body as string")
        ELSE LET d == DecodeMessage(e.text)
             IN  IF d.ok THEN EvOk(d.msg) ELSE EvErr(d.err)
    ELSE EvErr("Got unknown message type")

\* The messages collected newest first.
RECURSIVE CollectMsgs_Reversed(_)
CollectMsgs_Reversed(events) ==
    IF events = <<>> THEN [ok |-> TRUE, msgs |-> <<>>, err |-> ""]
    ELSE LET h == ParseEvent(Head(events))
         IN  IF ~h.ok THEN [ok |-> FALSE, msgs |-> <<>>, err |-> h.err]
             ELSE LET t == CollectMsgs_Reversed(Tail(events))
                  IN  IF ~t.ok THEN t
                      ELSE [ok |-> TRUE, msgs |-> t.msgs \o <<h.msg>>, err |-> ""]

\* .collect::<Result<Vec<Message>, Error>>(): the messages in order, or the first
\* error met.
RECURSIVE CollectMsgs(_)
CollectMsgs(events) ==
    IF events = <<>> THEN [ok |-> TRUE, msgs |-> <<>>, err |-> ""]
    ELSE LET h == ParseEvent(Head(events))
         IN  IF ~h.ok THEN [ok |-> FALSE, msgs |-> <<>>, err |-> h.err]
             ELSE LET t == CollectMsgs(Tail(events))
                  IN  IF ~t.ok THEN t
                      ELSE [ok |-> TRUE, msgs |-> <<h.msg>> \o t.msgs, err |-> ""]

\* The value of the request future: Ok(Some(batch)) or Err, and the cursor after.
\* `some` tells Ok(Some(batch)) from Ok(None), which Stream::poll hands on as the
\* end of the stream.
FutOk(batch, cursor) ==
    [ok |-> TRUE, some |-> TRUE, batch |-> batch, err |-> "", last_sync |-> cursor]
FutEnd(cursor) ==
    [ok |-> TRUE, some |-> FALSE, batch |-> <<>>, err |-> "", last_sync |-> cursor]
FutErr(e, cursor) ==
    [ok |-> FALSE, some |-> FALSE, batch |-> <<>>, err |-> e, last_sync |-> cursor]

\* return Ok(Some(Vec::new())) when rooms, rooms.join or rooms.join[room_id] is
\* missing.
MissingRoom_Reset(cursor) == FutOk(<<>>, None)

\* The same early return written as Ok(None).
MissingRoom_End(cursor) == FutEnd(cursor)

MissingRoom(cursor) == FutOk(<<>>, cursor)

\* *last_sync_lock = Some(next_batch.to_owned()); Ok(Some(msgs))
StoreCursor_Keep(msgs, cursor, next_batch) == FutOk(msgs, cursor)

StoreCursor(msgs, cursor, next_batch) == FutOk(msgs, Some(next_batch))

\* parsed.get("next_batch").ok_or(..)?.as_str().ok_or(..)?
NextBatch_Lenient(r) ==
    IF r.next_batch = None \/ ~Unwrap(r.next_batch).str
    THEN [ok |-> TRUE, tok |-> 0, err |-> ""]
    ELSE [ok |-> TRUE, tok |-> Unwrap(r.next_batch).tok, err |-> ""]

NextBatch(r) ==
    IF r.next_batch = None
    THEN [ok |-> FALSE, tok |-> 0, err |-> "Could not reach next-batch"]
    ELSE IF ~Unwrap(r.next_batch).str
    THEN [ok |-> FALSE, tok |-> 0, err |-> "Could not view next_batch as string"]
    ELSE [ok |-> TRUE, tok |-> Unwrap(r.next_batch).tok, err |-> ""]

\* The closure with the cursor stored as soon as next_batch is read, before the
\* events are decoded.
HandleResponse_StoreFirst(r, cursor) ==
    IF r.net = "error" THEN FutErr("network", cursor)
    ELSE IF ~r.json THEN FutErr("json", cursor)
    ELSE IF r.shape \in MissingRoomShapes THEN MissingRoom(cursor)
    ELSE LET nb == NextBatch(r)
             stored == IF nb.ok THEN Some(nb.tok) ELSE cursor
         IN  IF r.shape # "ok" THEN FutErr("Could not find timeline", stored)
             ELSE LET c == CollectMsgs(r.events)
                  IN  IF ~c.ok THEN FutErr(c.err, stored)
                      ELSE IF ~nb.ok THEN FutErr(nb.err, stored)
                      ELSE FutOk(c.msgs, stored)

\* The closure with the cursor cleared when the cycle fails, so that the next
\* stream would start over.
HandleResponse_ResetOnError(r, cursor) ==
    LET f == HandleResponse_StoreFirst(r, cursor)
        c == CollectMsgs(r.events)
        nb == NextBatch(r)
    IN  IF r.net = "error" \/ ~r.json THEN FutErr("network or json", None)
        ELSE IF r.shape \in MissingRoomShapes THEN MissingRoom(cursor)
        ELSE IF r.shape # "ok" \/ ~c.ok \/ ~nb.ok THEN FutErr(f.err, None)
        ELSE StoreCursor(c.msgs, cursor, nb.tok)

\* The events of every joined room of the body, one room after the other.
TimelineEvents_AllRooms(r) == r.events \o r.others

\* join.get(&room_id), then timeline.events of that entry: the events listed
\* under the stream's own room and no others.
TimelineEvents(r) == r.events

\* The whole closure given to and_then, on the wire outcome `r`.
HandleResponse(r, cursor) ==
    IF r.net = "error" THEN FutErr("network", cursor)
    ELSE IF ~r.json THEN FutErr("json", cursor)
    ELSE IF r.shape \in MissingRoomShapes THEN MissingRoom(cursor)
    ELSE IF r.shape = "no_timeline" THEN FutErr("Could not find timeline", cursor)
    ELSE IF r.shape = "no_events" THEN FutErr("Could not reach events", cursor)
    ELSE IF r.shape = "events_not_array"
        THEN FutErr("Could not view events as array", cursor)
    ELSE LET c == CollectMsgs(TimelineEvents(r))
         IN  IF ~c.ok THEN FutErr(c.err, cursor)
             ELSE LET nb == NextBatch(r)
                  IN  IF ~nb.ok THEN FutErr(nb.err, cursor)
                      ELSE StoreCursor(c.msgs, cursor, nb.tok)

-----------------------------------------------------------------------------
(* MatrixStream: Stream::poll *)

PollRes(tag, batch, err) == [tag |-> tag, batch |-> batch, err |-> err]
NoPoll == PollRes("none", <<>>, "")

NoRequest == Req("none", "", "", None, NoText)

\* A stream that takes up the cursor of the stream the caller holds.
NewStream_Resume(c) ==
    [homeserver |-> c.homeserver, room_id |-> c.room_id,
     access_token |-> Unwrap(c.access_token),
     last_sync |-> IF IsSome(stream) THEN Unwrap(stream).last_sync ELSE None,
     fut |-> "None", req |-> NoRequest]

\* MatrixChannel::listen builds this.
NewStream(c) ==
    [homeserver |-> c.homeserver, room_id |-> c.room_id,
     access_token |-> Unwrap(c.access_token), last_sync |-> None,
     fut |-> "None", req |-> NoRequest]

\* No request future stored: build the sync request from the cursor, store its
\* future and poll it once. The connection is only being opened, so that first
\* poll finds the future not ready.
PollBuild(s) ==
    [stream |-> [s EXCEPT !.fut = "Pending", !.req = SyncRequest(s)],
     res |-> PollRes("NotReady", <<>>, ""),
     issued |-> <<SyncRequest(s)>>]

\* The stored future dropped by a poll that finds it not ready, so that the
\* next poll builds another request.
PollStored_DropPending(s, out) ==
    IF out.net = "pending"
    THEN [stream |-> [s EXCEPT !.fut = "None", !.req = NoRequest],
          res |-> PollRes("NotReady", <<>>, ""), issued |-> <<>>]
    ELSE LET f == HandleResponse(out, s.last_sync)
         IN  IF f.ok
             THEN [stream |-> [s EXCEPT !.fut = "None", !.req = NoRequest,
                                        !.last_sync = f.last_sync],
                   res |-> PollRes("Ready", f.batch, ""), issued |-> <<>>]
             ELSE [stream |-> [s EXCEPT !.fut = "Completed", !.req = NoRequest,
                                        !.last_sync = f.last_sync],
                   res |-> PollRes("Err", <<>>, f.err), issued |-> <<>>]

\* The stored future cleared whatever the poll returned unless it is NotReady, so
\* that the poll after a failed cycle builds a new request.
PollStored_ClearOnErr(s, out) ==
    IF out.net = "pending"
    THEN [stream |-> s, res |-> PollRes("NotReady", <<>>, ""), issued |-> <<>>]
    ELSE LET f == HandleResponse(out, s.last_sync)
         IN  [stream |-> [s EXCEPT !.fut = "None", !.req = NoRequest,
                                    !.last_sync = f.last_sync],
              res |-> IF f.ok THEN PollRes("Ready", f.batch, "")
                      ELSE PollRes("Err", <<>>, f.err),
              issued |-> <<>>]

\* A request future is stored: poll it; clear it only on Ok(Ready(_)).
PollStored(s, out) ==
    IF out.net = "pending"
    THEN [stream |-> s, res |-> PollRes("NotReady", <<>>, ""), issued |-> <<>>]
    ELSE LET f == HandleResponse(out, s.last_sync)
         IN  IF f.ok
             THEN [stream |-> [s EXCEPT !.fut = "None", !.req = NoRequest,
                                        !.last_sync = f.last_sync],
                   res |-> IF f.some THEN PollRes("Ready", f.batch, "")
                           ELSE PollRes("End", <<>>, ""),
                   issued |-> <<>>]
             ELSE [stream |-> [s EXCEPT !.fut = "Completed", !.req = NoRequest,
                                        !.last_sync = f.last_sync],
                   res |-> PollRes("Err", <<>>, f.err), issued |-> <<>>]

\* The stored future has already completed with an error and is polled again: the
\* chained future panics ("cannot poll ... twice").
PollAgain(s) == [stream |-> s, res |-> PollRes("Panic", <<>>, ""), issued |-> <<>>]

\* poll with the next request built and sent as soon as a batch is ready, before
\* the consumer asks for more.
poll_Prefetch(s, out) ==
    IF s.fut = "Pending"
    THEN LET p == PollStored(s, out)
         IN  IF p.res.tag = "Ready"
             THEN [p EXCEPT !.stream = PollBuild(p.stream).stream,
                            !.issued = PollBuild(p.stream).issued]
             ELSE p
    ELSE IF s.fut = "Completed" THEN PollAgain(s)
    ELSE PollBuild(s)

poll(s, out) ==
    IF s.fut = "Pending" THEN PollStored(s, out)
    ELSE IF s.fut = "Completed" THEN PollAgain(s)
    ELSE PollBuild(s)

\* The wire outcomes a poll of stream s can meet.
PollOutcomes(s) == IF s.fut = "Pending" THEN SyncOutcomes(s.req) ELSE {NotReady}

-----------------------------------------------------------------------------
(* MatrixChannel *)

OpOk(issued) == [ok |-> TRUE, err |-> "", issued |-> issued]
OpErr(e, issued) == [ok |-> FALSE, err |-> e, issued |-> issued]

\* listen(): a fresh MatrixStream, or NotAuthenticated without an access token.
listen_Unchecked(c) ==
    [ok |-> TRUE, err |-> "",
     stream |-> Some(NewStream([c EXCEPT !.access_token = Some("")]))]

listen(c) ==
    IF c.access_token = None
    THEN [ok |-> FALSE, err |-> "NotAuthenticated", stream |-> None]
    ELSE [ok |-> TRUE, err |-> "", stream |-> Some(NewStream(c))]

\* What the homeserver can answer to /joined_rooms.
Joined(netst, form, rooms) == [net |-> netst, form |-> form, rooms |-> rooms]
JoinedOutcomes ==
    {Joined("error", "", {}), Joined("ok", "bad_json", {}), Joined("ok", "no_key", {})}
        \cup {Joined("ok", "ok", R) : R \in SUBSET Rooms}

\* joined_rooms(): the set of joined rooms, or an error.
joined_rooms(c, jout) ==
    IF c.access_token = None
    THEN [ok |-> FALSE, err |-> "NotAuthenticated", rooms |-> {}, issued |-> <<>>]
    ELSE LET issued == <<JoinedRoomsRequest(c, Unwrap(c.access_token))>>
         IN  IF jout.net = "error"
             THEN [ok |-> FALSE, err |-> "network", rooms |-> {}, issued |-> issued]
             ELSE IF jout.form = "bad_json"
             THEN [ok |-> FALSE, err |-> "json", rooms |-> {}, issued |-> issued]
             ELSE IF jout.form = "no_key"
             THEN [ok |-> FALSE, err |-> "ResponseNotUnderstood", rooms |-> {},
                   issued |-> issued]
             ELSE [ok |-> TRUE, err |-> "", rooms |-> jout.rooms, issued |-> issued]

\* check_room(): Ok when the channel's room is among the joined rooms.
check_room(c, jout) ==
    LET j == joined_rooms(c, jout)
    IN  IF ~j.ok THEN OpErr(j.err, j.issued)
        ELSE IF c.room_id \in j.rooms THEN OpOk(j.issued)
        ELSE OpErr("RoomNotJoined", j.issued)

\* What can become of the send-event request: whether the homeserver added the
\* event to the room, and what came back.
Sent(netst, form, applied) == [net |-> netst, form |-> form, applied |-> applied]
SendOutcomes ==
    {Sent("ok", "event_id", TRUE)}
        \cup {Sent("error", "", a) : a \in BOOLEAN}
        \cup {Sent("ok", f, a) : f \in {"bad_json", "no_event_id", "event_id_nonstring"},
                                  a \in BOOLEAN}

\* The send-event request gets an outcome only when it is issued.
NotSent == Sent("none", "", FALSE)
SendOutcomesAfter(c, jout) ==
    IF check_room(c, jout).ok THEN SendOutcomes ELSE {NotSent}

\* send_msg with the POST issued a second time when the first did not come back
\* with an event id.
send_msg_Retry(c, msg, jout, sout) ==
    LET cr == check_room(c, jout)
    IN  IF ~cr.ok THEN OpErr(cr.err, cr.issued)
        ELSE IF c.access_token = None THEN OpErr("NotAuthenticated", cr.issued)
        ELSE LET req == SendRequest(c, Unwrap(c.access_token), msg)
                 once == Append(cr.issued, req)
                 twice == Append(once, req)
             IN  IF sout.net = "error" THEN OpErr("network", twice)
                 ELSE IF sout.form = "bad_json" THEN OpErr("json", twice)
                 ELSE IF sout.form = "event_id_nonstring"
                     THEN OpErr("event_id is not a String", twice)
                 ELSE IF sout.form = "no_event_id"
                     THEN OpErr("Could not get event_id from response", twice)
                 ELSE OpOk(once)

\* send_msg without the look at the joined rooms.
send_msg_Unchecked(c, msg, jout, sout) ==
    IF c.access_token = None THEN OpErr("NotAuthenticated", <<>>)
    ELSE LET issued == <<SendRequest(c, Unwrap(c.access_token), msg)>>
         IN  IF sout.net = "error" THEN OpErr("network", issued)
             ELSE IF sout.form = "bad_json" THEN OpErr("json", issued)
             ELSE IF sout.form = "event_id_nonstring"
                 THEN OpErr("event_id is not a String", issued)
             ELSE IF sout.form = "no_event_id"
                 THEN OpErr("Could not get event_id from response", issued)
             ELSE OpOk(issued)

\* send_msg(): check_room first, then one POST of the serialized message.
send_msg(c, msg, jout, sout) ==
    LET cr == check_room(c, jout)
    IN  IF ~cr.ok THEN OpErr(cr.err, cr.issued)
        ELSE IF c.access_token = None THEN OpErr("NotAuthenticated", cr.issued)
        ELSE LET issued == Append(cr.issued, SendRequest(c, Unwrap(c.access_token), msg))
             IN  IF sout.net = "error" THEN OpErr("network", issued)
                 ELSE IF sout.form = "bad_json" THEN OpErr("json", issued)
                 ELSE IF sout.form = "event_id_nonstring"
                     THEN OpErr("event_id is not a String", issued)
                 ELSE IF sout.form = "no_event_id"
                     THEN OpErr("Could not get event_id from response", issued)
                 ELSE OpOk(issued)

\* The last answer a send_msg call received: that to the send-event request
\* when there was one, else that to /joined_rooms, which is asked only with a
\* token.
LastAnswer(c, jout, sout) ==
    IF sout # NotSent THEN sout
    ELSE IF c.access_token = None THEN NoResponse
    ELSE jout

ChanOk(c) == [ok |-> TRUE, err |-> "", channel |-> c]
ChanErr(e, c) == [ok |-> FALSE, err |-> e, channel |-> c]

\* to_channel with a check for the session's access token.
to_channel_RequireToken(settings) ==
    IF settings.access_token = None THEN ChanErr("ProvisioningError", settings)
    ELSE ChanOk(settings)

\* to_channel(): the settings cloned into a MatrixChannel with a new HTTPS client;
\* new_https_client() has no failing path.
to_channel(settings) == ChanOk(settings)

Range(q) == {q[i] : i \in 1..Len(q)}
RoomsOf(issued) == {issued[i].room : i \in 1..Len(issued)}
HasSend(issued) == \E i \in 1..Len(issued) : issued[i].kind = "send"
SendsIn(issued) == SelectSeq(issued, LAMBDA r : r.kind = "send")

\* The homeserver adds one event to the room for every send-event request that
\* reaches it: the requests carry nothing by which it could tell a repetition.
AppliedEvents(issued, sout) ==
    IF sout.applied
    THEN [i \in 1..Len(SendsIn(issued)) |-> TextEvent(SendsIn(issued)[i].body)]
    ELSE <<>>

Ret(op, ok, err, issued) == [op |-> op, ok |-> ok, err |-> err, issued |-> issued]
NoRet == Ret("none", TRUE, "", <<>>)

-----------------------------------------------------------------------------
(* The homeserver and the callers of one channel *)

\* Somebody posts an event to the room.
ServerAppend(room, e) ==
    /\ Len(log[room]) < MaxLog
    /\ e \in EventsAt(Len(log[room]) + 1)
    /\ log' = [log EXCEPT ![room] = Append(@, e)]
    /\ lastResp' = NoResponse
    /\ lastPoll' = NoPoll
    /\ ret' = Ret("post", TRUE, "", <<>>)
    /\ UNCHANGED <<pc, mainVars, channel, stream, net, delivered>>

\* One Stream::poll of the current stream on wire outcome `out`.
PollStep(out) ==
    LET s == Unwrap(stream)
        p == poll(s, out)
    IN  /\ stream' = Some(p.stream)
        /\ lastPoll' = p.res
        /\ lastResp' = IF s.fut = "Pending" /\ out.net # "pending" THEN out ELSE NoResponse
        /\ net' = net \cup RoomsOf(p.issued)
        /\ delivered' = IF p.res.tag = "Ready" THEN delivered \o p.res.batch ELSE delivered
        /\ ret' = Ret("poll", p.res.tag \notin {"Err", "Panic"}, p.res.err, p.issued)

\* One MatrixChannel::listen call on the current channel.
ListenStep ==
    LET c == Unwrap(channel)
        l == listen(c)
    IN  /\ stream' = IF l.ok THEN l.stream ELSE stream
        /\ delivered' = IF l.ok THEN <<>> ELSE delivered
        /\ lastPoll' = NoPoll
        /\ lastResp' = NoResponse
        /\ ret' = Ret("listen", l.ok, l.err, <<>>)
        /\ UNCHANGED <<net, log>>

\* A send_msg that shares the cursor with the stream and clears it.
SendStep_SharedCursor(msg, jout, sout) ==
    LET c == Unwrap(channel)
        r == send_msg(c, msg, jout, sout)
        added == AppliedEvents(r.issued, sout)
    IN  /\ Len(log[c.room_id]) + Len(added) <= MaxLog
        /\ ret' = Ret("send_msg", r.ok, r.err, r.issued)
        /\ net' = net \cup RoomsOf(r.issued)
        /\ lastPoll' = NoPoll
        /\ lastResp' = LastAnswer(c, jout, sout)
        /\ log' = [log EXCEPT ![c.room_id] = @ \o added]
        /\ stream' = IF IsSome(stream)
                     THEN Some([Unwrap(stream) EXCEPT !.last_sync = None])
                     ELSE stream
        /\ UNCHANGED delivered

\* One send_msg call on the current channel.
SendStep(msg, jout, sout) ==
    LET c == Unwrap(channel)
        r == send_msg(c, msg, jout, sout)
        added == AppliedEvents(r.issued, sout)
    IN  /\ Len(log[c.room_id]) + Len(added) <= MaxLog
        /\ ret' = Ret("send_msg", r.ok, r.err, r.issued)
        /\ net' = net \cup RoomsOf(r.issued)
        /\ lastPoll' = NoPoll
        /\ lastResp' = LastAnswer(c, jout, sout)
        /\ log' = [log EXCEPT ![c.room_id] = @ \o added]
        /\ UNCHANGED <<stream, delivered>>

\* The caller of the channel API polls the stream it holds.
Poll ==
    /\ pc = "api"
    /\ IsSome(stream)
    /\ \E out \in PollOutcomes(Unwrap(stream)) : PollStep(out)
    /\ pc' = IF lastPoll'.tag = "Panic" THEN "panicked" ELSE pc
    /\ UNCHANGED <<mainVars, channel, log>>

Listen ==
    /\ pc = "api"
    /\ IsSome(channel)
    /\ ListenStep
    /\ UNCHANGED <<pc, mainVars, channel>>

SendMsg ==
    /\ pc = "api"
    /\ IsSome(channel)
    /\ \E msg \in MessagesAt(Len(log[Unwrap(channel).room_id]) + 1),
          jout \in JoinedOutcomes :
            \E sout \in SendOutcomesAfter(Unwrap(channel), jout) :
                SendStep(msg, jout, sout)
    /\ UNCHANGED <<pc, mainVars, channel>>

Post == \E e \in UNION {EventsAt(i) : i \in 1..MaxLog} :
            ServerAppend(Unwrap(channel).room_id, e)

EmptyMap == [n \in {} |-> Settings("a", None)]
EmptyLog == [r \in Rooms |-> <<>>]

\* Nothing of pinreq-pubsub or of Message::from_str runs.
AuxIdle ==
    /\ identity = None /\ keyring = {} /\ wanted = Msg("", 0) /\ reqst = "idle"
    /\ topic = None /\ handled = None /\ line = <<>> /\ parsed = None

Init ==
    /\ pc = "api"
    /\ cmd = "api"
    /\ cfg = <<>>
    /\ requested = None
    /\ cfg_map = EmptyMap
    /\ channel_names = <<>>
    /\ idx = 0
    /\ result = None
    /\ constructed = <<>>
    /\ channel \in {Some(Settings("a", t)) : t \in Tokens}
    /\ stream = None
    /\ log = EmptyLog
    /\ net = {}
    /\ lastResp = NoResponse
    /\ lastPoll = NoPoll
    /\ ret = NoRet
    /\ delivered = <<>>
    /\ AuxIdle

Next == Post \/ Listen \/ Poll \/ SendMsg

Spec == Init /\ [][Next]_vars

-----------------------------------------------------------------------------
(* Config::to_map and load_config_map *)

MapOk(m) == [ok |-> TRUE, map |-> m, err |-> "", name |-> ""]
MapErr(e, n) == [ok |-> FALSE, map |-> EmptyMap, err |-> e, name |-> n]

Insert(m, k, v) == [x \in DOMAIN m \cup {k} |-> IF x = k THEN v ELSE m[x]]

\* The body of `for matrix_ch in self.matrix`, from entry i on, with `ret` so far.
RECURSIVE to_map_loop(_, _, _)
to_map_loop(entries, i, m) ==
    IF i > Len(entries) THEN MapOk(m)
    ELSE IF entries[i].name \in DOMAIN m
        THEN MapErr("Ambiguous channel name", entries[i].name)
    ELSE to_map_loop(entries, i + 1, Insert(m, entries[i].name, entries[i]))

\* Config::to_map
to_map_Overwrite(c) ==
    MapOk([n \in {c[i].name : i \in 1..Len(c)} |->
            c[CHOOSE i \in 1..Len(c) :
                /\ c[i].name = n
                /\ \A j \in 1..Len(c) : c[j].name = n => j <= i]])

\* to_map with a repeated name skipped, the first entry of that name kept.
to_map_KeepFirst(c) ==
    MapOk([n \in {c[i].name : i \in 1..Len(c)} |->
            c[CHOOSE i \in 1..Len(c) :
                /\ c[i].name = n
                /\ \A j \in 1..Len(c) : c[j].name = n => i <= j]])

to_map(c) == to_map_loop(c, 1, EmptyMap)

NamesOk(q) == [ok |-> TRUE, names |-> q, err |-> "", name |-> ""]
NamesErr(e, n) == [ok |-> FALSE, names |-> <<>>, err |-> e, name |-> n]

\* chans.map(..).collect::<Result<Vec<_>, Error>>(): the names in order, or the
\* first one the map does not hold.
check_names_Skip(chans, i, m) ==
    NamesOk(SelectSeq(chans, LAMBDA n : n \in DOMAIN m))

RECURSIVE check_names(_, _, _)
check_names(chans, i, m) ==
    IF i > Len(chans) THEN NamesOk(chans)
    ELSE IF chans[i] \in DOMAIN m THEN check_names(chans, i + 1, m)
    ELSE NamesErr("Channel not found", chans[i])

\* Names drawn from the map's keys with no care for taking each exactly once.
KeyOrders_Any(m) == SeqsUpTo(DOMAIN m, Cardinality(DOMAIN m))

\* cfg_map.keys().cloned().collect(): every key once, in the map's iteration order.
KeyOrders(m) ==
    {q \in [1..Cardinality(DOMAIN m) -> DOMAIN m] : Range(q) = DOMAIN m}

\* The selection of load_config_map, `order` being the map's iteration order.
select_channels(req, m, order) ==
    IF IsSome(req) THEN check_names(Unwrap(req), 1, m) ELSE NamesOk(order)

MainOk == [ok |-> TRUE, err |-> "", name |-> ""]
MainErr(e, n) == [ok |-> FALSE, err |-> e, name |-> n]

\* main(): load_config_map(&main_matches)?, then the handler of the subcommand.
LoadConfigMap ==
    /\ pc = "main"
    /\ LET m == to_map(cfg)
       IN  IF ~m.ok
           THEN /\ result' = Some(MainErr(m.err, m.name))
                /\ pc' = "exit"
                /\ UNCHANGED <<cfg_map, channel_names, idx>>
           ELSE \E order \in KeyOrders(m.map) :
                  LET sel == select_channels(requested, m.map, order)
                  IN  IF ~sel.ok
                      THEN /\ result' = Some(MainErr(sel.err, sel.name))
                           /\ pc' = "exit"
                           /\ UNCHANGED <<cfg_map, channel_names, idx>>
                      ELSE /\ cfg_map' = m.map
                           /\ channel_names' = sel.names
                           /\ idx' = 1
                           /\ pc' = IF cmd = "listen" THEN "hl_loop" ELSE "hr_loop"
                           /\ UNCHANGED result
    /\ ret' = Ret("load_config_map", TRUE, "", <<>>)
    /\ lastPoll' = NoPoll
    /\ lastResp' = NoResponse
    /\ UNCHANGED <<auxVars, cmd, cfg, requested, constructed, channel, stream, log, net, delivered>>

-----------------------------------------------------------------------------
(* handle_listen *)

\* One turn of `for ch_name in channels`: to_channel()?, then listen().await?.
HLStart ==
    /\ pc = "hl_loop"
    /\ idx <= Len(channel_names)
    /\ LET ch_name == channel_names[idx]
           t == to_channel(cfg_map[ch_name])
           c == t.channel
       IN  IF ~t.ok
           THEN /\ result' = Some(MainErr(t.err, ch_name))
                /\ pc' = "exit"
                /\ ret' = Ret("to_channel", FALSE, t.err, <<>>)
                /\ UNCHANGED <<channel, constructed, stream>>
           ELSE /\ channel' = Some(c)
                /\ constructed' = Append(constructed, ch_name)
                /\ LET l == listen(c)
                   IN  /\ stream' = IF l.ok THEN l.stream ELSE None
                       /\ ret' = Ret("listen", l.ok, l.err, <<>>)
                       /\ pc' = IF l.ok THEN "hl_stream" ELSE "exit"
                       /\ result' = IF l.ok THEN result
                                    ELSE Some(MainErr(l.err, ch_name))
    /\ delivered' = <<>>
    /\ lastPoll' = NoPoll
    /\ lastResp' = NoResponse
    /\ UNCHANGED <<auxVars, cmd, cfg, requested, cfg_map, channel_names, idx, log, net>>

\* The loop has run through the selection: Ok(()).
HLDone ==
    /\ pc = "hl_loop"
    /\ idx > Len(channel_names)
    /\ result' = Some(MainOk)
    /\ pc' = "exit"
    /\ ret' = Ret("handle_listen", TRUE, "", <<>>)
    /\ lastPoll' = NoPoll
    /\ lastResp' = NoResponse
    /\ UNCHANGED <<auxVars, cmd, cfg, requested, cfg_map, channel_names, idx, constructed,
                   channel, stream, log, net, delivered>>

\* handle_listen taking a stream error as the end of that channel only.
HLPoll_NextChannel ==
    /\ pc = "hl_stream"
    /\ IsSome(stream)
    /\ \E out \in PollOutcomes(Unwrap(stream)) : PollStep(out)
    /\ pc' = IF lastPoll'.tag \in {"Err", "Panic", "End"} THEN "hl_loop" ELSE pc
    /\ result' = result
    /\ idx' = IF lastPoll'.tag \in {"Err", "Panic", "End"} THEN idx + 1 ELSE idx
    /\ UNCHANGED <<auxVars, cmd, cfg, requested, cfg_map, channel_names, constructed, channel, log>>

\* try_for_each(..).await?: poll the stream; a batch is logged and the stream is
\* polled again, an error ends handle_listen, the end of the stream moves the loop
\* to the next channel.
HLPoll ==
    /\ pc = "hl_stream"
    /\ IsSome(stream)
    /\ \E out \in PollOutcomes(Unwrap(stream)) : PollStep(out)
    /\ pc' = CASE lastPoll'.tag \in {"Err", "Panic"} -> "exit"
               [] lastPoll'.tag = "End" -> "hl_loop"
               [] OTHER -> pc
    /\ result' = IF lastPoll'.tag \in {"Err", "Panic"}
                 THEN Some(MainErr(lastPoll'.err, channel_names[idx]))
                 ELSE result
    /\ idx' = IF lastPoll'.tag = "End" THEN idx + 1 ELSE idx
    /\ UNCHANGED <<auxVars, cmd, cfg, requested, cfg_map, channel_names, constructed, channel, log>>

-----------------------------------------------------------------------------
(* handle_request *)

\* handle_request going on to the next channel after a send that failed.
HRSend_Continue ==
    /\ pc = "hr_loop"
    /\ idx <= Len(channel_names)
    /\ LET ch_name == channel_names[idx]
           t == to_channel(cfg_map[ch_name])
           c == t.channel
       IN  IF ~t.ok
           THEN /\ result' = Some(MainErr(t.err, ch_name))
                /\ pc' = "exit"
                /\ ret' = Ret("to_channel", FALSE, t.err, <<>>)
                /\ lastResp' = NoResponse
                /\ UNCHANGED <<channel, constructed, idx, log, net>>
           ELSE
           /\ channel' = Some(c)
           /\ constructed' = Append(constructed, ch_name)
           /\ \E signed \in BOOLEAN :
                IF ~signed
                THEN /\ result' = Some(MainErr("signing", ch_name))
                     /\ pc' = "exit"
                     /\ ret' = Ret("from_kind", FALSE, "signing", <<>>)
                     /\ lastResp' = NoResponse
                     /\ UNCHANGED <<idx, log, net>>
                ELSE \E msg \in MessagesAt(Len(log[c.room_id]) + 1),
                        jout \in JoinedOutcomes :
                       \E sout \in SendOutcomesAfter(c, jout) :
                         LET r == send_msg(c, msg, jout, sout)
                             added == AppliedEvents(r.issued, sout)
                         IN  /\ Len(log[c.room_id]) + Len(added) <= MaxLog
                             /\ ret' = Ret("send_msg", r.ok, r.err, r.issued)
                             /\ net' = net \cup RoomsOf(r.issued)
                             /\ lastResp' = LastAnswer(c, jout, sout)
                             /\ log' = [log EXCEPT ![c.room_id] = @ \o added]
                             /\ result' = result
                             /\ pc' = pc
                             /\ idx' = idx + 1
    /\ lastPoll' = NoPoll
    /\ UNCHANGED <<auxVars, cmd, cfg, requested, cfg_map, channel_names, stream, delivered>>

\* One turn of `for ch_name in channels`: to_channel()?, Message::from_kind(..)?,
\* send_msg(&msg).await?.
HRSend ==
    /\ pc = "hr_loop"
    /\ idx <= Len(channel_names)
    /\ LET ch_name == channel_names[idx]
           t == to_channel(cfg_map[ch_name])
           c == t.channel
       IN  IF ~t.ok
           THEN /\ result' = Some(MainErr(t.err, ch_name))
                /\ pc' = "exit"
                /\ ret' = Ret("to_channel", FALSE, t.err, <<>>)
                /\ lastResp' = NoResponse
                /\ UNCHANGED <<channel, constructed, idx, log, net>>
           ELSE
           /\ channel' = Some(c)
           /\ constructed' = Append(constructed, ch_name)
           /\ \E signed \in BOOLEAN :
                IF ~signed
                THEN /\ result' = Some(MainErr("signing", ch_name))
                     /\ pc' = "exit"
                     /\ ret' = Ret("from_kind", FALSE, "signing", <<>>)
                     /\ lastResp' = NoResponse
                     /\ UNCHANGED <<idx, log, net>>
                ELSE \E msg \in MessagesAt(Len(log[c.room_id]) + 1),
                        jout \in JoinedOutcomes :
                       \E sout \in SendOutcomesAfter(c, jout) :
                         LET r == send_msg(c, msg, jout, sout)
                             added == AppliedEvents(r.issued, sout)
                         IN  /\ Len(log[c.room_id]) + Len(added) <= MaxLog
                             /\ ret' = Ret("send_msg", r.ok, r.err, r.issued)
                             /\ net' = net \cup RoomsOf(r.issued)
                             /\ lastResp' = LastAnswer(c, jout, sout)
                             /\ log' = [log EXCEPT ![c.room_id] = @ \o added]
                             /\ result' = IF r.ok THEN result
                                          ELSE Some(MainErr(r.err, ch_name))
                             /\ pc' = IF r.ok THEN pc ELSE "exit"
                             /\ idx' = IF r.ok THEN idx + 1 ELSE idx
    /\ lastPoll' = NoPoll
    /\ UNCHANGED <<auxVars, cmd, cfg, requested, cfg_map, channel_names, stream, delivered>>

\* The loop has run through the selection: Ok(()).
HRDone ==
    /\ pc = "hr_loop"
    /\ idx > Len(channel_names)
    /\ result' = Some(MainOk)
    /\ pc' = "exit"
    /\ ret' = Ret("handle_request", TRUE, "", <<>>)
    /\ lastPoll' = NoPoll
    /\ lastResp' = NoResponse
    /\ UNCHANGED <<auxVars, cmd, cfg, requested, cfg_map, channel_names, idx, constructed,
                   channel, stream, log, net, delivered>>

-----------------------------------------------------------------------------
(* One run of the program *)

RequestNames == Names \cup {"z"}
Configs == SeqsUpTo(SettingsSet, MaxChannels)
Requests == {None} \cup {Some(q) : q \in SeqsUpTo(RequestNames, MaxRequested) \ {<<>>}}

InitMain ==
    /\ pc = "main"
    /\ cmd \in {"listen", "request"}
    /\ cfg \in Configs
    /\ requested \in Requests
    /\ cfg_map = EmptyMap
    /\ channel_names = <<>>
    /\ idx = 0
    /\ result = None
    /\ constructed = <<>>
    /\ channel = None
    /\ stream = None
    /\ log = EmptyLog
    /\ net = {}
    /\ lastResp = NoResponse
    /\ lastPoll = NoPoll
    /\ ret = NoRet
    /\ delivered = <<>>
    /\ AuxIdle

NextMain == LoadConfigMap \/ HLStart \/ HLDone \/ HLPoll \/ HRSend \/ HRDone

SpecMain == InitMain /\ [][NextMain]_vars

\* The executor polls a task that can make progress.
FairMain == SpecMain /\ WF_vars(NextMain)

-----------------------------------------------------------------------------
(* Properties of one sync cycle (Spec) *)

\* The step just taken was a poll that completed the request future on a parsed
\* /sync body.
CycleParsed == ret.op = "poll" /\ lastResp.net = "ok" /\ lastResp.json
\* ... and that body held the target room's entry, timeline and event array.
CycleWithRoom == CycleParsed /\ lastResp.shape = "ok"
CycleWithToken ==
    CycleWithRoom /\ IsSome(lastResp.next_batch) /\ Unwrap(lastResp.next_batch).str

Cursor == Unwrap(stream).last_sync

\* The messages of the well-formed events of a timeline, in timeline order.
RECURSIVE WellFormedMsgs(_)
WellFormedMsgs(events) ==
    IF events = <<>> THEN <<>>
    ELSE (IF IsWellFormed(Head(events))
          THEN <<DecodeMessage(Head(events).text).msg>> ELSE <<>>)
         \o WellFormedMsgs(Tail(events))

AllWellFormed(events) == \A i \in 1..Len(events) : IsWellFormed(events[i])
AllText(events) ==
    \A i \in 1..Len(events) : IsWellFormed(events[i]) \/ IsMalformedText(events[i])
AllGoodOrNonText(events) ==
    \A i \in 1..Len(events) : IsWellFormed(events[i]) \/ IsNonText(events[i])

\* C1: a timeline of N well-formed and M malformed text events, in any order,
\* yields a batch of exactly the N decoded messages, no error, and a stream that
\* can be polled for a further cycle.
C1_MalformedEventsDropped ==
    (CycleWithToken /\ AllText(lastResp.events))
        => /\ lastPoll.tag = "Ready"
           /\ lastPoll.batch = WellFormedMsgs(lastResp.events)
           /\ Unwrap(stream).fut = "None"

\* C2: a response without rooms, without rooms.join or without the room's entry
\* yields an empty batch, no error, and leaves the cursor as it was.
C2_MissingRoomStep ==
    (ret'.op = "poll" /\ lastResp'.net = "ok" /\ lastResp'.json
        /\ lastResp'.shape \in MissingRoomShapes)
        => /\ lastPoll'.tag = "Ready"
           /\ lastPoll'.batch = <<>>
           /\ Unwrap(stream').last_sync = Unwrap(stream).last_sync
C2_MissingRoomKeepsCursor == [][C2_MissingRoomStep]_vars

\* C2's case: a missing-room response with a fresh next_batch arrives at a stream
\* whose cursor is already set.
C2_Witness ==
    /\ CycleParsed /\ lastResp.shape = "no_room" /\ lastPoll.tag = "Ready"
    /\ IsSome(Cursor) /\ IsSome(lastResp.next_batch)
    /\ Unwrap(lastResp.next_batch).tok # Unwrap(Cursor)

\* C3: the room's entry is there but next_batch is absent or no string: the cycle
\* ends in an error, yields no batch and leaves the cursor as it was.
C3_MissingTokenStep ==
    (ret'.op = "poll" /\ lastResp'.net = "ok" /\ lastResp'.json
        /\ lastResp'.shape \notin MissingRoomShapes
        /\ (lastResp'.next_batch = None \/ ~Unwrap(lastResp'.next_batch).str))
        => /\ lastPoll'.tag = "Err"
           /\ lastPoll'.batch = <<>>
           /\ delivered' = delivered
           /\ Unwrap(stream').last_sync = Unwrap(stream).last_sync
C3_MissingTokenIsError == [][C3_MissingTokenStep]_vars

\* C3's case: every event decoded, only next_batch is missing.
C3_Witness ==
    /\ CycleWithRoom /\ lastResp.next_batch = None /\ lastPoll.tag = "Err"
    /\ lastResp.events # <<>> /\ AllWellFormed(lastResp.events)

\* C4: a poll changes the cursor only when it completes a fully parsed response
\* (room entry, timeline, events array, every event, string next_batch), and then
\* to that next_batch; a poll that ends in an error leaves the cursor as it was.
C4_CursorStep ==
    ret'.op = "poll"
        => /\ (Unwrap(stream').last_sync # Unwrap(stream).last_sync
                => /\ lastPoll'.tag = "Ready"
                   /\ lastResp'.net = "ok" /\ lastResp'.json /\ lastResp'.shape = "ok"
                   /\ AllWellFormed(lastResp'.events)
                   /\ IsSome(lastResp'.next_batch) /\ Unwrap(lastResp'.next_batch).str
                   /\ Unwrap(stream').last_sync = Some(Unwrap(lastResp'.next_batch).tok))
           /\ (lastPoll'.tag = "Err"
                => Unwrap(stream').last_sync = Unwrap(stream).last_sync)
C4_CursorOnlyAfterFullParse == [][C4_CursorStep]_vars

\* C4's case: a cycle fails on an event although next_batch was there and new.
C4_Witness ==
    /\ CycleWithToken /\ lastPoll.tag = "Err"
    /\ IsSome(Cursor) /\ Unwrap(lastResp.next_batch).tok # Unwrap(Cursor)

\* C5: after a cycle that yielded the batch decoded from a response with
\* next_batch = t the cursor is t, every sync request carries the cursor as
\* `since`, and no message is yielded twice by one stream.
C5_CursorIsToken ==
    (CycleWithToken /\ lastPoll.tag = "Ready")
        => Cursor = Some(Unwrap(lastResp.next_batch).tok)
C5_RequestStep ==
    (ret'.op = "poll" /\ ret'.issued # <<>>)
        => /\ Len(ret'.issued) = 1
           /\ ret'.issued[1].kind = "sync"
           /\ ret'.issued[1].since = Unwrap(stream).last_sync
           /\ Unwrap(stream').req = ret'.issued[1]
NoDuplicates(q) == \A i, j \in 1..Len(q) : i # j => q[i] # q[j]
C5_NoRedelivery ==
    /\ [](C5_CursorIsToken /\ NoDuplicates(delivered))
    /\ [][C5_RequestStep]_vars

\* C5's case: a second batch is yielded by a request that carried the token of
\* the first.
C5_Witness ==
    /\ CycleWithToken /\ lastPoll.tag = "Ready" /\ Len(lastPoll.batch) = 1
    /\ Len(delivered) = 2

\* C9: send_msg and listen on a channel without an access token fail with
\* NotAuthenticated, issue no request and change nothing of the channel.
C9_UnauthenticatedStep ==
    (ret'.op \in {"listen", "send_msg"} /\ IsSome(channel)
        /\ Unwrap(channel).access_token = None)
        => /\ ~ret'.ok /\ ret'.err = "NotAuthenticated"
           /\ ret'.issued = <<>>
           /\ net' = net /\ log' = log
           /\ channel' = channel /\ stream' = stream
C9_NotAuthenticated == [][C9_UnauthenticatedStep]_vars

\* C9's case: both calls have been made on a channel without a token.
C9_Witness ==
    /\ IsSome(channel) /\ Unwrap(channel).access_token = None
    /\ ret.op \in {"listen", "send_msg"} /\ ret.err = "NotAuthenticated"

\* C10: an event that is no m.text event is dropped silently: the batch is the
\* decoded well-formed events, there is no error.
C10_NonTextEventsDropped ==
    (CycleWithToken /\ AllGoodOrNonText(lastResp.events))
        => /\ lastPoll.tag = "Ready"
           /\ lastPoll.batch = WellFormedMsgs(lastResp.events)

\* A wire outcome the stream cannot go on from: a failed connection, a body that
\* is not JSON, a room entry without an event array, no string next_batch.
FatalResponse(r) ==
    \/ r.net = "error"
    \/ /\ r.net = "ok"
       /\ \/ ~r.json
          \/ r.shape \in {"no_timeline", "no_events", "events_not_array"}
          \/ r.shape = "ok" /\ (r.next_batch = None \/ ~Unwrap(r.next_batch).str)

NoSyncIn(issued) == \A i \in 1..Len(issued) : issued[i].kind # "sync"

\* C11: a cycle that fails is returned to the caller as the stream's error and
\* ends that stream: it yields nothing, and from then on the stream stays as it
\* is and issues no sync request, whatever is polled, until listen() is called
\* anew.
C11_FailureStep ==
    ret'.op = "poll"
        => /\ FatalResponse(lastResp')
                => /\ lastPoll'.tag = "Err" /\ ~ret'.ok
                   /\ delivered' = delivered
           /\ lastPoll'.tag = "Err"
                => /\ Unwrap(stream').fut = "Completed"
                   /\ ret'.issued = <<>>
C11_TerminalStep ==
    (IsSome(stream) /\ Unwrap(stream).fut = "Completed" /\ ret'.op # "listen")
        => /\ stream' = stream
           /\ NoSyncIn(ret'.issued)
           /\ delivered' = delivered
           /\ ret'.op = "poll" => lastPoll'.tag \notin {"Ready", "NotReady", "End"}
C11_ErrorIsTerminal == [][C11_FailureStep /\ C11_TerminalStep]_vars

\* C11's case: the stream was polled again after a cycle had failed on the network.
C11_Witness ==
    /\ IsSome(stream) /\ Unwrap(stream).fut = "Completed"
    /\ ret.op = "poll" /\ lastResp = NoResponse /\ ret.issued = <<>>
    /\ Unwrap(stream).last_sync # None

\* C12: a sync request is issued only by a poll that finds no request stored, one
\* at a time; a stored request goes away only when its batch is handed to the
\* consumer (or the stream is replaced by a new listen()); a step that is no poll
\* issues no sync request and does not touch the stream.
C12_RequestStep ==
    /\ ~NoSyncIn(ret'.issued)
        => /\ ret'.op = "poll" /\ Len(ret'.issued) = 1
           /\ IsSome(stream) /\ Unwrap(stream).fut = "None"
           /\ Unwrap(stream').fut = "Pending" /\ Unwrap(stream').req = ret'.issued[1]
           /\ lastPoll'.tag = "NotReady"
    /\ (IsSome(stream) /\ Unwrap(stream).fut # "None" /\ Unwrap(stream').fut = "None")
        => \/ ret'.op = "listen"
           \/ ret'.op = "poll" /\ lastPoll'.tag = "Ready"
                /\ delivered' = delivered \o lastPoll'.batch
    /\ ret'.op \notin {"poll", "listen"} => stream' = stream
C12_OneRequestAtATime == [][C12_RequestStep]_vars

\* C12's case: the second request of a stream, issued by the poll that followed
\* the hand-over of a non-empty batch.
C12_Witness ==
    /\ ret.op = "poll" /\ ret.issued # <<>> /\ IsSome(ret.issued[1].since)
    /\ delivered # <<>> /\ Unwrap(stream).fut = "Pending"

\* C13: the stream never reports its end: a poll that completes a cycle returns
\* a batch (possibly empty) and leaves the stream ready for the next request, or
\* returns an error; only an error stops the stream.
C13_CycleStep ==
    /\ (ret'.op = "poll" /\ lastResp' # NoResponse)
        => \/ lastPoll'.tag = "Ready" /\ Unwrap(stream').fut = "None"
           \/ lastPoll'.tag = "Err"
    /\ (IsSome(stream') /\ Unwrap(stream').fut = "Completed"
            /\ Unwrap(stream).fut # "Completed")
        => lastPoll'.tag = "Err"
C13_NeverEnds == [](lastPoll.tag # "End") /\ [][C13_CycleStep]_vars

\* C13's case: a cycle with nothing to yield (rooms.join is missing) on a stream
\* that has yielded before.
C13_Witness ==
    /\ CycleParsed /\ lastResp.shape = "no_join"
    /\ lastPoll = PollRes("Ready", <<>>, "") /\ delivered # <<>>

\* C22: a cursor that holds a token never goes back to None; a cycle that found
\* the room and succeeded leaves the cursor at the next_batch of its response;
\* nothing but such a cycle writes the cursor of a stream.
C22_CursorStep ==
    (IsSome(stream) /\ ret'.op # "listen")
        => LET old == Unwrap(stream).last_sync
               new == Unwrap(stream').last_sync
           IN  /\ IsSome(stream')
               /\ IsSome(old) => IsSome(new)
               /\ (ret'.op = "poll" /\ lastPoll'.tag = "Ready" /\ lastResp'.shape = "ok")
                    => new = Some(Unwrap(lastResp'.next_batch).tok)
               /\ new # old
                    => /\ ret'.op = "poll" /\ lastPoll'.tag = "Ready"
                       /\ lastResp'.shape = "ok"
C22_CursorNeverRolledBack == [][C22_CursorStep]_vars

\* C22's case: a stream whose cursor holds a token has met a network error.
C22_Witness ==
    /\ ret.op = "poll" /\ lastResp = NetError /\ lastPoll.tag = "Err"
    /\ IsSome(Cursor)

\* C23: every sync request is for the stream's room and message type, with
\* full_state = false and the stream's access token; it has no `since` exactly
\* when the cursor is None and otherwise the cursor as `since`.
C23_RequestStep ==
    (ret'.op = "poll" /\ ret'.issued # <<>>)
        => LET r == ret'.issued[1]
               s == Unwrap(stream)
           IN  /\ r.kind = "sync" /\ r.full_state = FALSE
               /\ r.types = "m.room.message" /\ r.room = s.room_id
               /\ r.access_token = s.access_token
               /\ r.since = None <=> s.last_sync = None
               /\ IsSome(s.last_sync) => r.since = s.last_sync
C23_SyncRequestShape == [][C23_RequestStep]_vars

\* C23's case: the first request of a stream, without `since`, to a room that
\* holds events already.
C23_Witness ==
    /\ ret.op = "poll" /\ ret.issued # <<>> /\ ret.issued[1].since = None
    /\ Len(log[ret.issued[1].room]) = MaxLog

\* C24: the messages of a batch are in the order of their events in the
\* response's timeline.
C24_OrderKept ==
    (ret.op = "poll" /\ lastPoll.tag = "Ready" /\ CycleWithRoom)
        => /\ lastPoll.batch = WellFormedMsgs(lastResp.events)
           /\ \A i, j \in 1..Len(lastPoll.batch) :
                i < j => lastPoll.batch[i].arg < lastPoll.batch[j].arg

\* C24's case: a batch of two messages.
C24_Witness ==
    /\ ret.op = "poll" /\ lastPoll.tag = "Ready" /\ Len(lastPoll.batch) = 2
    /\ Len(lastResp.events) = 2

\* C25: a send_msg call leaves the stream - its cursor, its stored request - and
\* what it has yielded as they were, and issues no sync request.
C25_SendStep ==
    ret'.op = "send_msg"
        => /\ stream' = stream
           /\ delivered' = delivered
           /\ NoSyncIn(ret'.issued)
C26_ListenStep ==
    /\ (ret'.op = "listen" /\ ret'.ok)
        => /\ IsSome(stream')
           /\ Unwrap(stream').last_sync = None
           /\ Unwrap(stream').fut = "None"
           /\ delivered' = <<>>
    /\ IsSome(channel)
        => /\ channel' = channel
           /\ DOMAIN Unwrap(channel) = {"name", "homeserver", "room_id", "access_token"}
C26_FreshStream == [][C26_ListenStep]_vars

\* C26's case: listen() on a channel whose room has been synced or sent to.
C26_Witness ==
    /\ ret.op = "listen" /\ ret.ok /\ Cursor = None
    /\ net # {} /\ Len(log[Unwrap(channel).room_id]) = MaxLog

-----------------------------------------------------------------------------
(* Properties of one run (SpecMain, FairMain) *)

CfgNames == {cfg[i].name : i \in 1..Len(cfg)}
HasDuplicate == \E i, j \in 1..Len(cfg) : i < j /\ cfg[i].name = cfg[j].name
\* The first entry, in file order, whose name an earlier entry has.
FirstDuplicate ==
    CHOOSE j \in 1..Len(cfg) :
        /\ \E i \in 1..(j - 1) : cfg[i].name = cfg[j].name
        /\ \A k \in 1..(j - 1) : \A i \in 1..(k - 1) : cfg[i].name # cfg[k].name
\* load_config_map returned Ok.
Loaded == idx >= 1

\* C6: with several channels selected for `listen`, every selected channel that
\* has an access token gets its sync requests issued, also while another
\* channel's stream goes on without failing.
C6_EveryChannelPolled ==
    \A n \in Names :
        [](( /\ pc = "hl_stream"
             /\ n \in Range(channel_names)
             /\ IsSome(cfg_map[n].access_token))
            => <>(RoomOf(n) \in net \/ pc = "exit"))

\* C7: a config with two entries of one name fails to load with an error naming
\* the first duplicate, before any channel is built; a registry that was built
\* holds each configured channel once, under its name.
C7_RegistryUnique ==
    /\ (pc # "main" /\ HasDuplicate)
        => /\ result = Some(MainErr("Ambiguous channel name", cfg[FirstDuplicate].name))
           /\ pc = "exit" /\ ~Loaded
           /\ constructed = <<>> /\ channel = None /\ net = {}
    /\ Loaded
        => /\ ~HasDuplicate
           /\ DOMAIN cfg_map = CfgNames
           /\ Cardinality(DOMAIN cfg_map) = Len(cfg)
           /\ \A i \in 1..Len(cfg) : cfg_map[cfg[i].name] = cfg[i]

\* C7's case: three entries, the third repeating the second's name.
C7_Witness ==
    /\ Len(cfg) = 3 /\ cfg[1].name = "a" /\ cfg[2].name = "b" /\ cfg[3].name = "b"
    /\ result = Some(MainErr("Ambiguous channel name", "b"))

\* C8: explicit names resolve only when the registry holds every one of them,
\* and then to the requested names in the requested order; otherwise resolution
\* fails naming the first missing name, nothing is selected and nothing is built.
C8_ExplicitNames ==
    (pc # "main" /\ IsSome(requested) /\ ~HasDuplicate)
        => LET q == Unwrap(requested)
               missing == {i \in 1..Len(q) : q[i] \notin CfgNames}
           IN  IF missing = {}
               THEN Loaded /\ channel_names = q
               ELSE /\ ~Loaded /\ pc = "exit"
                    /\ \E i \in missing :
                         /\ \A k \in missing : i <= k
                         /\ result = Some(MainErr("Channel not found", q[i]))
                    /\ channel_names = <<>> /\ constructed = <<>> /\ channel = None

\* C8's case: [a, z] is requested and only a is registered.
C8_Witness ==
    /\ requested = Some(<<"a", "z">>) /\ CfgNames = {"a"}
    /\ result = Some(MainErr("Channel not found", "z"))
    /\ channel_names = <<>>

\* The channel the loop is at has been built by to_channel.
LastConstructed == constructed[Len(constructed)]

\* C14 as stated: a live channel exists only for settings that carry an access
\* token; for settings without one the conversion fails and no channel is built.
C14_ProvisioningChecked ==
    IsSome(channel) => IsSome(Unwrap(channel).access_token)

\* C14, amended: to_channel succeeds for every settings value, with or without an
\* access token, and the channel carries the settings unchanged; the run never
\* ends in a provisioning error, and a missing token is reported as
\* NotAuthenticated by the first listen or send_msg on that channel, before any
\* request of that call.
C14_ToChannelAlwaysSucceeds ==
    /\ constructed # <<>>
        => /\ channel = Some(cfg_map[LastConstructed])
           /\ Len(constructed) = idx \/ Len(constructed) = idx - 1
    /\ (pc = "exit" /\ Loaded /\ idx <= Len(channel_names))
        => /\ constructed # <<>> /\ LastConstructed = channel_names[idx]
           /\ Unwrap(result).err # "ProvisioningError"
    /\ (IsSome(channel) /\ Unwrap(channel).access_token = None)
        => /\ pc = "exit"
           /\ Unwrap(result).name = LastConstructed
           /\ Unwrap(result).err \in {"NotAuthenticated", "signing"}
           /\ ret.issued = <<>>

\* C14's case: the second selected channel has no access token and was built
\* all the same, after the first had sent its message.
C14_Witness ==
    /\ cmd = "request" /\ Len(constructed) = 2
    /\ IsSome(channel) /\ Unwrap(channel).access_token = None
    /\ result = Some(MainErr("NotAuthenticated", LastConstructed))
    /\ net # {}

\* The configuration cannot be loaded: a name occurs twice, or a requested name
\* is not registered.
ConfigError ==
    \/ HasDuplicate
    \/ IsSome(requested)
            /\ \E i \in 1..Len(Unwrap(requested)) : Unwrap(requested)[i] \notin CfgNames
ConfigErrors == {"Ambiguous channel name", "Channel not found"}
NothingDone ==
    /\ constructed = <<>> /\ channel = None /\ stream = None
    /\ net = {} /\ log = EmptyLog /\ delivered = <<>> /\ ret.issued = <<>>

\* C15: with `listen` or `request`, a duplicate channel name or a requested name
\* that is not registered ends the run with that error as soon as the
\* configuration is loaded: no channel has been built, no request has been issued,
\* nothing has been sent and no stream exists; and a run that ended in such an
\* error has done none of these.
C15_ConfigErrorBeforeNetwork ==
    /\ (pc # "main" /\ ConfigError)
        => /\ pc = "exit" /\ ~Loaded
           /\ IsSome(result) /\ ~Unwrap(result).ok
           /\ Unwrap(result).err \in ConfigErrors
           /\ NothingDone
    /\ (IsSome(result) /\ Unwrap(result).err \in ConfigErrors)
        => ConfigError /\ NothingDone

\* C15's case: `request` on all channels of a config in which a channel that
\* could send (it has a token) shares its name with another entry.
C15_Witness ==
    /\ cmd = "request" /\ requested = None /\ HasDuplicate
    /\ \E i \in 1..Len(cfg) : IsSome(cfg[i].access_token)
    /\ pc = "exit" /\ Unwrap(result).err = "Ambiguous channel name"

-----------------------------------------------------------------------------
(* Properties of send_msg (Spec) *)

MalformedSendForms == {"bad_json", "no_event_id", "event_id_nonstring"}

\* C16: one send_msg call issues the send-event request at most once and adds at
\* most one event, the serialized message, to the channel's room and none to any
\* other; it returns an error when the request fails, when the response is no
\* JSON and when it has no string event_id, and it does not send again then.
C16_SendStep ==
    ret'.op = "send_msg"
        => LET room == Unwrap(channel).room_id
               sends == SendsIn(ret'.issued)
           IN  /\ Len(sends) <= 1
               /\ \A r \in Rooms \ {room} : log'[r] = log[r]
               /\ \/ log'[room] = log[room]
                  \/ /\ Len(sends) = 1
                     /\ log'[room] = Append(log[room], TextEvent(sends[1].body))
               /\ (Len(sends) = 1 /\ lastResp'.net = "error") => ~ret'.ok
               /\ (Len(sends) = 1 /\ lastResp'.net = "ok"
                        /\ lastResp'.form \in MalformedSendForms)
                    => ~ret'.ok /\ ret'.err # ""
               /\ ret'.ok => Len(sends) = 1 /\ lastResp'.form = "event_id"
C16_SingleDelivery == [][C16_SendStep]_vars

\* C16's case: the event was added to the room but the response had no event_id:
\* the call fails and the room holds the message once.
C16_Witness ==
    /\ ret.op = "send_msg" /\ ~ret.ok /\ Len(SendsIn(ret.issued)) = 1
    /\ lastResp = Sent("ok", "no_event_id", TRUE)
    /\ Len(log[Unwrap(channel).room_id]) = 1

\* C17: every send-event request carries an idempotency token (of the message
\* content and the time of the call).
C17_IdempotencyToken ==
    \A i \in 1..Len(ret.issued) :
        ret.issued[i].kind = "send" => IsSome(ret.issued[i].txn_id)

-----------------------------------------------------------------------------
(* Signed messages: Message::from_kind and pinreq-pubsub *)

Keys == {"k1", "k2"}
Announced == {Msg(k, a) : k \in MessageKinds, a \in ResourceIds}

\* The canonical serialized form of a MessageKind.
Canon(k) == [form |-> "kind", kind |-> k.kind, arg |-> k.arg]

\* A signature: the key that made it and the bytes it was made over.
Signature(key, data) == [key |-> key, over |-> data]

\* Message { kind, signature }
Envelope(k, sig) == [kind |-> k, signature |-> sig]

\* Message::from_kind(kind, &mut ctx): a detached signature over the canonical form
\* of `kind`, by the context's signing identity.
from_kind(k, signer) ==
    IF signer = None
    THEN [ok |-> FALSE, err |-> "SigningFailed", msg |-> Envelope(k, Signature("", Canon(k)))]
    ELSE [ok |-> TRUE, err |-> "",
          msg |-> Envelope(k, Signature(Unwrap(signer), Canon(k)))]

\* verify(envelope, verifier): the signature against the canonical form of the
\* envelope's kind, serialized anew.
verify(envelope, known) ==
    [kind |-> envelope.kind,
     outcome |-> IF envelope.signature.key \notin known THEN "Unverifiable"
                 ELSE IF envelope.signature.over = Canon(envelope.kind) THEN "Valid"
                 ELSE "Invalid"]

\* serde_json::to_string(&Message) and serde_json::from_slice::<Message>
JsonOf(m) ==
    [form |-> "json", kind |-> m.kind.kind, arg |-> m.kind.arg,
     sigkey |-> m.signature.key, sigover |-> m.signature.over]
NotJson == [form |-> "garbage"]
JsonOk(m) == [ok |-> TRUE, msg |-> m]
JsonErr == [ok |-> FALSE, msg |-> Envelope(Msg("", 0), Signature("", NotJson))]
from_slice(t) ==
    IF t.form = "json" /\ t.kind \in MessageKinds
    THEN JsonOk(Envelope(Msg(t.kind, t.arg), Signature(t.sigkey, t.sigover)))
    ELSE JsonErr

\* An armored OpenPGP signed message: the literal data and a signature over it.
SignedData(armor, literal, sig) ==
    [form |-> "pgp", armor |-> armor, literal |-> literal, sig |-> sig]

\* ctx.sign(SignMode::Normal, buffer, &mut signed_data)
ctx_sign(buffer, signer, agent_ok) ==
    IF signer = None \/ ~agent_ok
    THEN [ok |-> FALSE, data |-> SignedData(FALSE, buffer, Signature("", buffer))]
    ELSE [ok |-> TRUE,
          data |-> SignedData(TRUE, buffer, Signature(Unwrap(signer), buffer))]

\* ctx.verify_opaque(&mut data_raw, &mut decrypted_raw): Err when the data is no
\* OpenPGP message; otherwise Ok with the literal data written out and a result
\* that tells, for the signature, whether it is good.
verify_opaque(data, known) ==
    IF data.form # "pgp" \/ ~data.armor
    THEN [ok |-> FALSE, status |-> "", plaintext |-> NotJson]
    ELSE [ok |-> TRUE,
          status |-> IF data.sig.key \notin known THEN "NoPublicKey"
                     ELSE IF data.sig.over = data.literal THEN "Valid"
                     ELSE "BadSignature",
          plaintext |-> data.literal]

\* The pubsub API hands the data over base64-encoded.
Base64(data) == [b64 |-> data]
base64_decode(item) == item.b64

\* pinreq-pubsub request: the message signed, serialized, signed as a whole.
RequestData(k, signer, agent_ok) ==
    LET m == from_kind(k, signer)
    IN  IF ~m.ok THEN [ok |-> FALSE, err |-> m.err, data |-> NotJson]
        ELSE LET sd == ctx_sign(JsonOf(m.msg), signer, agent_ok)
             IN  IF ~sd.ok THEN [ok |-> FALSE, err |-> "Could not sign the request",
                                 data |-> NotJson]
                 ELSE [ok |-> TRUE, err |-> "", data |-> sd.data]

Outcome(v, status, decoded, pinned) ==
    [verify |-> v, status |-> status, decoded |-> decoded, pinned |-> pinned]

\* The closure with the JSON parsed from the data as received.
HandleItem_ParseRaw(item, known) ==
    LET data_raw == base64_decode(item)
        v == verify_opaque(data_raw, known)
        d == from_slice(data_raw)
    IN  IF ~v.ok THEN Outcome("Err", "", None, None)
        ELSE IF ~d.ok THEN Outcome("Ok", v.status, None, None)
        ELSE Outcome("Ok", v.status, Some(d.msg),
                     IF d.msg.kind.kind = "Pin" THEN Some(d.msg.kind.arg) ELSE None)

\* pinreq-pubsub listen, the for_each closure: verify_opaque and, on Ok(_res),
\* parse the literal data and pin the address of a Pin; the result is not read.
HandleItem(item, known) ==
    LET data_raw == base64_decode(item)
        v == verify_opaque(data_raw, known)
        d == from_slice(v.plaintext)
    IN  IF ~v.ok THEN Outcome("Err", "", None, None)
        ELSE IF ~d.ok THEN Outcome("Ok", v.status, None, None)
        ELSE Outcome("Ok", v.status, Some(d.msg),
                     IF d.msg.kind.kind = "Pin" THEN Some(d.msg.kind.arg) ELSE None)

\* What altering the payload of signed data in transit can leave: another
\* message under the old signatures, bytes that are no JSON, a broken armor.
Tampered(data) ==
    {[data EXCEPT !.literal = [@ EXCEPT !.kind = k.kind, !.arg = k.arg]] :
        k \in {x \in Announced : x.kind # data.literal.kind \/ x.arg # data.literal.arg}}
    \cup {[data EXCEPT !.literal = NotJson], [data EXCEPT !.armor = FALSE]}

InTransit(data, t) == [item |-> Base64(data), tampered |-> t]

PubsubRequest ==
    /\ pc = "pubsub" /\ reqst = "idle"
    /\ \E agent_ok, pub_ok \in BOOLEAN :
          LET r == RequestData(wanted, identity, agent_ok)
          IN  IF r.ok /\ pub_ok
              THEN /\ topic' = Some(InTransit(r.data, FALSE))
                   /\ reqst' = "published"
              ELSE /\ topic' = topic
                   /\ reqst' = "failed"
    /\ UNCHANGED <<pc, cmd, cfg, requested, cfg_map, channel_names, idx, result,
                   constructed, channel, stream, log, net, lastResp, lastPoll, ret,
                   delivered, identity, keyring, wanted, handled, line, parsed>>

PubsubTamper ==
    /\ pc = "pubsub" /\ IsSome(topic) /\ ~Unwrap(topic).tampered /\ handled = None
    /\ \E d \in Tampered(base64_decode(Unwrap(topic).item)) :
          topic' = Some(InTransit(d, TRUE))
    /\ UNCHANGED <<pc, cmd, cfg, requested, cfg_map, channel_names, idx, result,
                   constructed, channel, stream, log, net, lastResp, lastPoll, ret,
                   delivered, identity, keyring, wanted, reqst, handled, line, parsed>>

PubsubListen ==
    /\ pc = "pubsub" /\ IsSome(topic) /\ handled = None
    /\ handled' = Some(HandleItem(Unwrap(topic).item, keyring))
    /\ UNCHANGED <<pc, cmd, cfg, requested, cfg_map, channel_names, idx, result,
                   constructed, channel, stream, log, net, lastResp, lastPoll, ret,
                   delivered, identity, keyring, wanted, reqst, topic, line, parsed>>

\* No channel, no stream, no run of main().
ProgramIdle ==
    /\ cmd = "none" /\ cfg = <<>> /\ requested = None /\ cfg_map = EmptyMap
    /\ channel_names = <<>> /\ idx = 0 /\ result = None /\ constructed = <<>>
    /\ channel = None /\ stream = None /\ log = EmptyLog /\ net = {}
    /\ lastResp = NoResponse /\ lastPoll = NoPoll /\ ret = NoRet /\ delivered = <<>>

InitPubsub ==
    /\ pc = "pubsub" /\ ProgramIdle
    /\ identity \in {None} \cup {Some(k) : k \in Keys}
    /\ keyring \in SUBSET Keys
    /\ wanted \in Announced
    /\ reqst = "idle" /\ topic = None /\ handled = None
    /\ line = <<>> /\ parsed = None

NextPubsub == PubsubRequest \/ PubsubTamper \/ PubsubListen

SpecPubsub == InitPubsub /\ [][NextPubsub]_vars

\* The listener took the item for a message and acted on it.
Accepted(h) == h.verify = "Ok" /\ IsSome(h.decoded)

C19_TamperDetected ==
    (IsSome(handled) /\ Unwrap(topic).tampered) => ~Accepted(Unwrap(handled))

-----------------------------------------------------------------------------
(* Message::from_str: a command line, as a sequence of characters *)

PinWord == <<"p", "i", "n">>
ConfirmWord == <<"c", "o", "n", "f", "i", "r", "m">>
Words == {PinWord, ConfirmWord, <<"p", "i">>, <<"u", "n", "p", "i", "n">>, <<>>}
ArgChars == {" ", "x", "y"}
Space == <<" ">>

\* A word alone, or a word, a space and up to MaxArg more characters.
Lines == Words \cup {w \o Space \o a : w \in Words, a \in SeqsUpTo(ArgChars, MaxArg)}

StrOk(m) == [ok |-> TRUE, msg |-> m, err |-> ""]
StrErr(e) == [ok |-> FALSE, msg |-> Msg("", <<>>), err |-> e]

SpacesOf(s) == {i \in 1..Len(s) : s[i] = " "}
FirstOf(S) == CHOOSE i \in S : \A j \in S : i <= j

\* The match with every other command word taken for a pin request.
MatchCmd_Default(word, args) ==
    IF word = ConfirmWord THEN StrOk(Msg("Confirm", args))
    ELSE StrOk(Msg("Pin", args))

\* The match of from_str on the command word and the argument text.
MatchCmd(word, args) ==
    IF word = PinWord THEN StrOk(Msg("Pin", args))
    ELSE IF word = ConfirmWord THEN StrOk(Msg("Confirm", args))
    ELSE StrErr("Could not understand command")

\* from_str with the line split at every space and the second piece taken.
from_str_SplitAll(s) ==
    IF SpacesOf(s) = {} THEN StrErr("Could not extract command arguments")
    ELSE LET first == FirstOf(SpacesOf(s))
             rest == SubSeq(s, first + 1, Len(s))
             args == IF SpacesOf(rest) = {} THEN rest
                     ELSE SubSeq(rest, 1, FirstOf(SpacesOf(rest)) - 1)
         IN  MatchCmd(SubSeq(s, 1, first - 1), args)

\* Message::from_str: s.splitn(2, ' ') gives the text before the first space and,
\* when there is a space, all the text after it.
from_str(s) ==
    IF SpacesOf(s) = {} THEN StrErr("Could not extract command arguments")
    ELSE LET first == FirstOf(SpacesOf(s))
         IN  MatchCmd(SubSeq(s, 1, first - 1), SubSeq(s, first + 1, Len(s)))

FromStr ==
    /\ pc = "from_str" /\ parsed = None
    /\ parsed' = Some(from_str(line))
    /\ UNCHANGED <<pc, cmd, cfg, requested, cfg_map, channel_names, idx, result,
                   constructed, channel, stream, log, net, lastResp, lastPoll, ret,
                   delivered, identity, keyring, wanted, reqst, topic, handled, line>>

InitParse ==
    /\ pc = "from_str" /\ ProgramIdle
    /\ identity = None /\ keyring = {} /\ wanted = Msg("", 0) /\ reqst = "idle"
    /\ topic = None /\ handled = None
    /\ line \in Lines
    /\ parsed = None

NextParse == FromStr

SpecParse == InitParse /\ [][NextParse]_vars

\* C20: "pin <arg>" parses to Pin(<arg>) and "confirm <arg>" to Confirm(<arg>),
\* <arg> being all the text after the first space, spaces included, unchanged.
C20_FromStr ==
    IsSome(parsed)
        => /\ (Len(line) >= 4 /\ SubSeq(line, 1, 4) = PinWord \o Space)
                => Unwrap(parsed) = StrOk(Msg("Pin", SubSeq(line, 5, Len(line))))
           /\ (Len(line) >= 8 /\ SubSeq(line, 1, 8) = ConfirmWord \o Space)
                => Unwrap(parsed) = StrOk(Msg("Confirm", SubSeq(line, 9, Len(line))))

\* C20's case: "confirm x y", an argument with a space in it.
C20_Witness ==
    /\ line = ConfirmWord \o <<" ", "x", " ", "y">>
    /\ parsed = Some(StrOk(Msg("Confirm", <<"x", " ", "y">>)))

\* C21: a line whose command word is neither pin nor confirm, and a line without
\* a space (no argument text), fail to parse with an error; the result is no
\* message of a known kind.
C21_UnknownKindFails ==
    IsSome(parsed)
        => LET p == Unwrap(parsed)
               failed == ~p.ok /\ p.err # "" /\ p.msg.kind \notin MessageKinds
           IN  /\ line \in Words => failed
               /\ \A w \in Words \ {PinWord, ConfirmWord} :
                    (Len(line) > Len(w) /\ SubSeq(line, 1, Len(w) + 1) = w \o Space)
                        => failed

\* C21's case: "unpin x" has been parsed.
C21_Witness ==
    /\ line = <<"u", "n", "p", "i", "n", " ", "x">>
    /\ parsed = Some(StrErr("Could not understand command"))

-----------------------------------------------------------------------------
(* Selection of all channels (SpecMain), the first sync (Spec) *)

\* C29: with all channels selected, the selection holds exactly the registered
\* names, each once; the registry and the selection made from it stay as they
\* are for the rest of the run, so every use of the selection sees one order.
C29_AllOnce ==
    (requested = None /\ Loaded)
        => /\ Range(channel_names) = DOMAIN cfg_map
           /\ Range(channel_names) = CfgNames
           /\ Len(channel_names) = Cardinality(CfgNames)
           /\ NoDuplicates(channel_names)
C29_Stable == Loaded => channel_names' = channel_names /\ cfg_map' = cfg_map
C29_AllChannels == []C29_AllOnce /\ [][C29_Stable]_vars

\* C29's case: both channels selected by `all`, in an order that is not the
\* config file's, and the loop has gone through the first.
C29_Witness ==
    /\ requested = None /\ Len(cfg) = 2 /\ cfg[1].name = "a" /\ cfg[2].name = "b"
    /\ channel_names = <<"b", "a">> /\ idx = 2

\* C30: the first sync request of a stream (no `since`) asks for a bounded
\* number of events: its filter carries the configured backlog size as the
\* timeline limit.
C30_FirstSyncLimited ==
    (ret.op = "poll" /\ ret.issued # <<>> /\ ret.issued[1].since = None)
        => IsSome(ret.issued[1].limit)

-----------------------------------------------------------------------------
(* Provisioning a channel: MatrixChannel::new, alias2id, log_in *)

Username == "alice"
Password == "secret"
IssuedTokens == {"tok", "tok2"}

\* GET /_matrix/client/r0/directory/room/{alias}: no access token in the URI.
Alias2IdRequest(room_alias) == Req("alias2id", room_alias, "", None, NoText)

\* POST /_matrix/client/r0/login with {type: m.login.password, user, password}
LoginBody(username, password) ==
    [form |-> "m.login.password", user |-> username, password |-> password]
LoginRequest(username, password) == Req("login", "", "", None, LoginBody(username, password))

\* What the homeserver can answer to the directory lookup and to the login.
Resolved(netst, form, room) == [net |-> netst, form |-> form, room |-> room]
ResolveOutcomes ==
    {Resolved("error", "", ""), Resolved("ok", "bad_json", ""),
     Resolved("ok", "no_room_id", ""), Resolved("ok", "room_id_nonstring", "")}
        \cup {Resolved("ok", "ok", r) : r \in Rooms}
Logged(netst, form, token) == [net |-> netst, form |-> form, token |-> token]
LoginOutcomes ==
    {Logged("error", "", ""), Logged("ok", "bad_json", ""),
     Logged("ok", "no_access_token", ""), Logged("ok", "access_token_nonstring", "")}
        \cup {Logged("ok", "ok", t) : t \in IssuedTokens}

\* alias2id(): the room id of the alias, or an error.
alias2id(room_alias, aout) ==
    LET issued == <<Alias2IdRequest(room_alias)>>
    IN  IF aout.net = "error"
        THEN [ok |-> FALSE, err |-> "network", room_id |-> "", issued |-> issued]
        ELSE IF aout.form = "bad_json"
        THEN [ok |-> FALSE, err |-> "json", room_id |-> "", issued |-> issued]
        ELSE IF aout.form = "no_room_id"
        THEN [ok |-> FALSE, err |-> "No room_id in response object", room_id |-> "",
              issued |-> issued]
        ELSE IF aout.form = "room_id_nonstring"
        THEN [ok |-> FALSE, err |-> "Cannot deserialize room_id as string",
              room_id |-> "", issued |-> issued]
        ELSE [ok |-> TRUE, err |-> "", room_id |-> aout.room, issued |-> issued]

\* MatrixChannel::new(): settings without room id and token, then the room id
\* from alias2id.
new(name, room_alias, aout) ==
    LET new_self == [name |-> name, homeserver |-> "hs", room_id |-> "",
                     access_token |-> None]
        a == alias2id(room_alias, aout)
    IN  [ok |-> a.ok, err |-> a.err, issued |-> a.issued,
         channel |-> [new_self EXCEPT !.room_id = a.room_id]]

LoginOk(c, issued) == [ok |-> TRUE, err |-> "", channel |-> c, issued |-> issued]
LoginErr(e, c, issued) == [ok |-> FALSE, err |-> e, channel |-> c, issued |-> issued]

\* log_in that drops the session before it asks for a new one.
log_in_ClearFirst(c, username, password, lout) ==
    LET issued == <<LoginRequest(username, password)>>
        cleared == [c EXCEPT !.access_token = None]
    IN  IF lout.net = "error" THEN LoginErr("network", cleared, issued)
        ELSE IF lout.form # "ok" THEN LoginErr("login response", cleared, issued)
        ELSE LoginOk([c EXCEPT !.access_token = Some(lout.token)], issued)

\* log_in that leaves a session alone when the channel has one already.
log_in_KeepOld(c, username, password, lout) ==
    LET issued == <<LoginRequest(username, password)>>
    IN  IF lout.net = "error" THEN LoginErr("network", c, issued)
        ELSE IF lout.form # "ok" THEN LoginErr("login response", c, issued)
        ELSE IF IsSome(c.access_token) THEN LoginOk(c, issued)
        ELSE LoginOk([c EXCEPT !.access_token = Some(lout.token)], issued)

\* log_in that builds the settings anew around the token.
log_in_Rebuild(c, username, password, lout) ==
    LET issued == <<LoginRequest(username, password)>>
    IN  IF lout.net = "error" THEN LoginErr("network", c, issued)
        ELSE IF lout.form # "ok" THEN LoginErr("login response", c, issued)
        ELSE LoginOk([c EXCEPT !.room_id = "", !.access_token = Some(lout.token)],
                     issued)

\* log_in(): on success self.settings.access_token = Some(token of the response);
\* the password goes into the request body and nowhere else.
log_in(c, username, password, lout) ==
    LET issued == <<LoginRequest(username, password)>>
    IN  IF lout.net = "error" THEN LoginErr("network", c, issued)
        ELSE IF lout.form = "bad_json" THEN LoginErr("json", c, issued)
        ELSE IF lout.form = "access_token_nonstring"
            THEN LoginErr("access_token is not a String", c, issued)
        ELSE IF lout.form = "no_access_token"
            THEN LoginErr("Could not get access_token from response", c, issued)
        ELSE LoginOk([c EXCEPT !.access_token = Some(lout.token)], issued)

GenFrame == <<cmd, requested, cfg_map, channel_names, idx, constructed, auxVars>>

\* handle_gen_matrix: MatrixChannel::new(..)?
GenNew ==
    /\ pc = "gen_new"
    /\ \E name \in Names, room_alias \in Names, aout \in ResolveOutcomes :
          LET r == new(name, room_alias, aout)
          IN  /\ ret' = Ret("new", r.ok, r.err, r.issued)
              /\ channel' = IF r.ok THEN Some(r.channel) ELSE None
              /\ pc' = IF r.ok THEN "gen" ELSE "exit"
              /\ result' = IF r.ok THEN result ELSE Some(MainErr(r.err, name))
    /\ lastResp' = NoResponse
    /\ lastPoll' = NoPoll
    /\ UNCHANGED <<GenFrame, cfg, stream, log, net, delivered>>

\* channel.log_in(&username, pass): here the caller may log in again.
GenLogIn ==
    /\ pc = "gen" /\ IsSome(channel)
    /\ \E lout \in LoginOutcomes :
          LET r == log_in(Unwrap(channel), Username, Password, lout)
          IN  /\ ret' = Ret("log_in", r.ok, r.err, r.issued)
              /\ channel' = Some(r.channel)
              /\ lastResp' = lout
    /\ lastPoll' = NoPoll
    /\ UNCHANGED <<GenFrame, pc, cfg, result, stream, log, net, delivered>>

\* The settings written out as the new config: Config { matrix: vec![settings] }.
GenPrint ==
    /\ pc = "gen" /\ ret.op = "log_in" /\ ret.ok
    /\ cfg' = <<Unwrap(channel)>>
    /\ result' = Some(MainOk)
    /\ pc' = "exit"
    /\ ret' = Ret("handle_gen_matrix", TRUE, "", <<>>)
    /\ lastResp' = NoResponse
    /\ lastPoll' = NoPoll
    /\ UNCHANGED <<GenFrame, channel, stream, log, net, delivered>>

\* The new channel used: listen() and send_msg().
GenListen ==
    /\ pc = "gen" /\ IsSome(channel)
    /\ ListenStep
    /\ UNCHANGED <<pc, mainVars, channel>>

GenSend ==
    /\ pc = "gen" /\ IsSome(channel)
    /\ \E msg \in MessagesAt(Len(log[Unwrap(channel).room_id]) + 1),
          jout \in JoinedOutcomes :
            \E sout \in SendOutcomesAfter(Unwrap(channel), jout) :
                SendStep(msg, jout, sout)
    /\ UNCHANGED <<pc, mainVars, channel>>

InitGen ==
    /\ pc = "gen_new" /\ cmd = "gen-matrix"
    /\ cfg = <<>> /\ requested = None /\ cfg_map = EmptyMap
    /\ channel_names = <<>> /\ idx = 0 /\ result = None /\ constructed = <<>>
    /\ channel = None /\ stream = None /\ log = EmptyLog /\ net = {}
    /\ lastResp = NoResponse /\ lastPoll = NoPoll /\ ret = NoRet /\ delivered = <<>>
    /\ AuxIdle

NextGen == GenNew \/ GenLogIn \/ GenPrint \/ GenListen \/ GenSend

SpecGen == InitGen /\ [][NextGen]_vars

-----------------------------------------------------------------------------
(* Login and the order of provisioning (SpecGen) *)

NoPassword(c) ==
    /\ c.name # Password /\ c.homeserver # Password /\ c.room_id # Password
    /\ c.access_token # Some(Password)

C27_NoPasswordKept ==
    /\ IsSome(channel) => NoPassword(Unwrap(channel))
    /\ \A i \in 1..Len(cfg) : NoPassword(cfg[i])

C27_LoginStep ==
    ret'.op = "log_in"
        => IF ret'.ok
           THEN channel' = Some([Unwrap(channel) EXCEPT
                                    !.access_token = Some(lastResp'.token)])
           ELSE channel' = channel

\* C27: a successful log_in puts the token of the login response in place of
\* whatever session the channel had, a failed one leaves the channel as it was,
\* and at no time do the channel's settings or the settings written to the
\* config hold the password.
C27_LoginReplacesSession == []C27_NoPasswordKept /\ [][C27_LoginStep]_vars

\* A stream opened under an earlier session, then a login that brought another.
C27_Witness ==
    /\ ret.op = "log_in" /\ ret.ok
    /\ IsSome(stream) /\ Unwrap(stream).access_token # lastResp.token
    /\ Unwrap(channel).access_token = Some(lastResp.token)
    /\ ret.issued[1].body.password = Password

HasAlias2Id(issued) == \E i \in 1..Len(issued) : issued[i].kind = "alias2id"

C28_Constructed ==
    /\ IsSome(channel) => Unwrap(channel).room_id \in Rooms
    /\ (ret.op = "new" /\ ret.ok)
        => /\ Unwrap(channel).access_token = None
           /\ Len(ret.issued) = 1 /\ ret.issued[1].kind = "alias2id"
           /\ ret.issued[1].access_token = ""
    /\ HasAlias2Id(ret.issued) => ret.op = "new"

C28_Step ==
    IsSome(channel)
        => /\ IsSome(channel')
           /\ Unwrap(channel').room_id = Unwrap(channel).room_id
           /\ Unwrap(channel').access_token # Unwrap(channel).access_token
                => /\ ret'.op = "log_in" /\ ret'.ok
                   /\ IsSome(Unwrap(channel').access_token)

-----------------------------------------------------------------------------
(* Empty resource ids (SpecParse) *)

\* C31: no line parses to a message with an empty resource id; a command
\* word followed by a space and nothing else is rejected.
C31_NoEmptyResourceId ==
    (IsSome(parsed) /\ Unwrap(parsed).ok) => Unwrap(parsed).msg.arg # <<>>

-----------------------------------------------------------------------------
(* The joined rooms before a send (Spec) *)

IsJoinedAnswer(r) == "rooms" \in DOMAIN r

C32_SendStep ==
    ret'.op = "send_msg"
        => LET c == Unwrap(channel)
               issued == ret'.issued
           IN  /\ \A i \in 1..Len(issued) :
                    issued[i].kind = "send"
                        => i = 2 /\ issued[1].kind = "joined_rooms"
                                 /\ issued[1].access_token = Unwrap(c.access_token)
               /\ (IsJoinedAnswer(lastResp') /\ lastResp'.net = "ok"
                        /\ lastResp'.form = "ok" /\ c.room_id \notin lastResp'.rooms)
                    => /\ ~ret'.ok /\ ret'.err = "RoomNotJoined"
                       /\ SendsIn(issued) = <<>>
                       /\ log' = log
               /\ ret'.err = "RoomNotJoined" => SendsIn(issued) = <<>>

\* C32: a send-event request is only ever the second request of a send_msg
\* call, after the /joined_rooms request; when the answer to /joined_rooms
\* does not list the channel's room, send_msg fails with RoomNotJoined, issues
\* no send-event request and no room gets an event.
C32_CheckRoomFirst == [][C32_SendStep]_vars

\* C32's case: the account has joined another room only.
C32_Witness ==
    /\ ret.op = "send_msg" /\ ~ret.ok /\ ret.err = "RoomNotJoined"
    /\ IsJoinedAnswer(lastResp) /\ lastResp.rooms # {}
    /\ Unwrap(channel).room_id \notin lastResp.rooms
    /\ Len(ret.issued) = 1

-----------------------------------------------------------------------------
(* A failed login (SpecGen) *)

FailedLoginAnswer(r) == r.net = "error" \/ r.form # "ok"

C33_FailedLoginStep ==
    (ret'.op = "log_in" /\ FailedLoginAnswer(lastResp'))
        => /\ ~ret'.ok /\ ret'.err # ""
           /\ Unwrap(channel').access_token = Unwrap(channel).access_token
           /\ channel' = channel

\* C33: a log_in whose request fails on the network, or whose response is no
\* JSON or has no string access_token, returns an error and leaves the
\* channel, its access token included, exactly as it was before the call.
C33_FailedLoginKeepsToken == [][C33_FailedLoginStep]_vars

\* C33's case: a channel with a session, and a login answered without a
\* string access_token.
C33_Witness ==
    /\ ret.op = "log_in" /\ ~ret.ok
    /\ lastResp = Logged("ok", "access_token_nonstring", "")
    /\ Unwrap(channel).access_token = Some("tok2")

-----------------------------------------------------------------------------
(* The request command over several channels (SpecMain) *)

\* The turns of the loop, up to turn n, that go to the room.
TurnsTo(room, n) ==
    {i \in 1..Len(channel_names) : i <= n /\ cfg_map[channel_names[i]].room_id = room}

IsPrefix(p, q) == Len(p) <= Len(q) /\ p = SubSeq(q, 1, Len(p))

C34_InOrder ==
    cmd = "request"
        => /\ IsPrefix(constructed, channel_names)
           /\ pc = "hr_loop" => Len(constructed) = idx - 1
           /\ (pc = "exit" /\ constructed # <<>>)
                => Len(constructed) \in {idx - 1, idx}
           /\ \A room \in Rooms :
                /\ Cardinality(TurnsTo(room, idx - 1)) <= Len(log[room])
                /\ Len(log[room]) <= Cardinality(TurnsTo(room, idx))

C34_Step ==
    cmd = "request"
        => /\ pc # "exit"
           /\ \A room \in Rooms : IsPrefix(log[room], log'[room])
           /\ (ret'.op \in {"to_channel", "from_kind", "send_msg"} /\ ~ret'.ok)
                => /\ pc' = "exit" /\ idx' = idx
                   /\ result' = Some(MainErr(ret'.err, channel_names[idx]))
           /\ (ret'.op = "send_msg" /\ ret'.ok)
                => /\ idx' = idx + 1 /\ pc' = "hr_loop"
                   /\ log'[cfg_map[channel_names[idx]].room_id]
                        = Append(log[cfg_map[channel_names[idx]].room_id],
                                 TextEvent(SendsIn(ret'.issued)[1].body))

\* C34: the request command builds the selected channels and sends to them in
\* the order of the selection, one per turn; the first turn in which to_channel,
\* the signing or send_msg fails ends the run with that error and that
\* channel's name; the rooms of the turns before it hold the message, no
\* event is ever taken back, and the turns after it add nothing to any room.
C34_StopsAtFirstFailure == []C34_InOrder /\ [][C34_Step]_vars

\* C34's case: two channels selected, the first has the message, the send to
\* the second failed and the run is over.
C34_Witness ==
    /\ cmd = "request" /\ pc = "exit" /\ Len(channel_names) = 2 /\ idx = 2
    /\ channel_names[1] # channel_names[2]
    /\ ret.op = "send_msg" /\ ~ret.ok
    /\ Len(log[cfg_map[channel_names[1]].room_id]) = 1
    /\ log[cfg_map[channel_names[2]].room_id] = <<>>

-----------------------------------------------------------------------------
(* A stream error in the listen command (SpecMain) *)

StreamFailed == ret.op = "poll" /\ lastPoll.tag = "Err"

C35_AfterError ==
    (cmd = "listen" /\ StreamFailed)
        => /\ pc = "exit"
           /\ result = Some(MainErr(lastPoll.err, channel_names[idx]))
           /\ constructed = SubSeq(channel_names, 1, idx)
           /\ net \subseteq {cfg_map[constructed[i]].room_id : i \in 1..Len(constructed)}

C35_Step == cmd = "listen" => ~StreamFailed

\* C35: in the listen command a poll of the stream that returns an error ends
\* the run with that error and the name of the channel: the channels built
\* are those up to the failed one, requests have gone to their rooms only, and
\* no step follows the error, so no later channel is built or polled.
C35_StreamErrorEndsListen == []C35_AfterError /\ [][C35_Step]_vars

\* C35's case: two channels selected, the stream of the first fails.
C35_Witness ==
    /\ cmd = "listen" /\ StreamFailed /\ pc = "exit"
    /\ Len(channel_names) = 2 /\ channel_names[1] # channel_names[2]
    /\ idx = 1 /\ constructed = <<channel_names[1]>>

-----------------------------------------------------------------------------
(* The room a batch comes from (Spec) *)

DecodedFrom(events) ==
    {ParseEvent(events[i]).msg : i \in {j \in 1..Len(events) : ParseEvent(events[j]).ok}}

\* What the response lists under the stream's room: nothing when the body has
\* no entry for that room.
OwnTimeline(r) == IF r.shape \in MissingRoomShapes THEN <<>> ELSE r.events

\* C36: a batch a poll yields has one message for every event the response
\* lists under the stream's room, each decoded from the event at its place,
\* and neither the batch nor what has been delivered holds a message of an
\* event listed under another room.
C36_OwnRoomOnly ==
    /\ (ret.op = "poll" /\ lastPoll.tag = "Ready")
        => /\ Len(lastPoll.batch) = Len(OwnTimeline(lastResp))
           /\ \A i \in 1..Len(lastPoll.batch) :
                /\ ParseEvent(OwnTimeline(lastResp)[i]).ok
                /\ lastPoll.batch[i] = ParseEvent(OwnTimeline(lastResp)[i]).msg
           /\ Range(lastPoll.batch) \cap DecodedFrom(lastResp.others) = {}
    /\ Range(delivered) \cap DecodedFrom(<<ForeignEvent>>) = {}

\* C36's case: the response lists an event under another room beside the
\* events of the stream's room, and a batch was yielded.
C36_Witness ==
    /\ ret.op = "poll" /\ lastPoll.tag = "Ready" /\ lastPoll.batch # <<>>
    /\ lastResp.others = <<ForeignEvent>>
    /\ DecodedFrom(lastResp.others) # {}

-----------------------------------------------------------------------------
(* The stored request future (Spec) *)

Stored(s) == s.fut # "None"

C37_PollStep ==
    (ret'.op = "poll" /\ IsSome(stream))
        => LET s == Unwrap(stream)
               t == Unwrap(stream')
           IN  /\ Stored(s)
                    => /\ ret'.issued = <<>>
                       /\ ~Stored(t) <=> lastPoll'.tag = "Ready"
                       /\ lastPoll'.tag = "NotReady" => t = s
               /\ ~Stored(s)
                    => /\ t.fut = "Pending" /\ Len(ret'.issued) = 1
                       /\ t.req = ret'.issued[1]

\* C37: a poll that finds a request future stored builds no request; it
\* clears the stored future when, and only when, it returns Ready with a batch;
\* when the future is not ready the stream is left as it was. Only a poll that
\* finds no future stored builds a request, and it stores that one.
C37_FutureClearedOnReady == [][C37_PollStep]_vars

\* C37's case: the stored future gave its batch and was cleared.
C37_Witness ==
    /\ ret.op = "poll" /\ lastPoll.tag = "Ready" /\ lastPoll.batch # <<>>
    /\ ~Stored(Unwrap(stream)) /\ Unwrap(stream).req = NoRequest
    /\ ret.issued = <<>>

====
